---- MODULE Spec2Model ----
(***************************************************************************)
(* Crawl loops of the JudgeSense scrapers.                                 *)
(*                                                                         *)
(*   SpecApi : src/apitest_single.py    (HTTP API crawler, thread pool)    *)
(*   SpecSc  : src/selenium_crawler.py, src/selenium_crawler2.py           *)
(*   SpecSt  : src/selenium_test.py     (browser crawler that navigates    *)
(*             back to its page after a CAPTCHA)                           *)
(*   FairSpecApi : SpecApi with its threads scheduled (liveness)           *)
(*   SpecPool    : apitest_single.py from process_case_batch on, for a     *)
(*                 page with more stubs than the pool has threads          *)
(*   SpecApiSt   : the runs of SpecApi and the runs of SpecSt              *)
(*   SpecGlp     : get_last_page as a function of the sink file            *)
(*   FairSpecWait: wait_for_captcha_solution, loop by loop, with time      *)
(*   SpecAgent   : src/agent.py, analyze_case_multi_agent                  *)
(*                                                                         *)
(* The three programs share one set of variables; a specification keeps    *)
(* the variables of the other programs at their idle values.               *)
(*                                                                         *)
(* The listing site, the CSV file system and the SIGINT signal are the     *)
(* environment: their answers are drawn nondeterministically.  A record is *)
(* identified by the source row it was read from, id = <<page, index>>;    *)
(* the document the site serves for id is <<"doc", page, index>>.          *)
(*                                                                         *)
(* Page length.  The code requests pages of 10 rows and flushes at         *)
(* BATCH_SIZE * 10 records ("10 cases per page * BATCH_SIZE").  The model  *)
(* scales that page length to PageLen, in the site and in the threshold.   *)
(***************************************************************************)
EXTENDS Integers, Sequences, FiniteSets, TLC

VARIABLES
    pc,            \* position of the controller (main)
    srcPages,      \* number of non-empty pages the site has
    csv,           \* legal_cases.csv: [exists, lines]
    backups,       \* the backup_<timestamp>.csv files written so far
    terminate,     \* global terminate flag
    last_page,     \* main: last_page
    current_page,  \* main: current_page
    batch_data,    \* main: batch_data
    attempt,       \* get_case_list: attempt
    cases_list,    \* main: cases_list (stubs of the page, tagged with page)
    fut,           \* process_case_batch: the futures, one per stub
    faults,        \* environment faults injected so far (bounded)
    listCalls,     \* history: pages get_case_list was called for, this run
    saved,         \* history: the records passed to save_to_csv, this run
    lastSave,      \* history: the latest save_to_csv call: [data, outcome]
    blocked,       \* history: a block marker was observed and not yet cleared
    blocker,       \* history: the call that observed the marker first
    reqInBlock,    \* history: the latest request was dispatched by another
                   \*          call while blocked
    req,           \* history: the latest get_case_list call - the answer to
                   \*          its latest request, the latest time.sleep
    variant,       \* which browser crawler runs (selenium_crawler: 1,
                   \*   selenium_crawler2: 2, selenium_test: 3)
    view,          \* what the browser shows: "blank", "main", "results",
                   \*   "captcha" (no results table), "challenge" (a CAPTCHA
                   \*   element on the results page)
    shown,         \* the results page the browser is on
    fresh,         \* the rows process_page holds are still attached to the DOM
    pp,            \* process_page: its locals
    empties,       \* selenium_crawler2.main: consecutive_empty_pages
    nv,            \* navigate_to_page: its locals
    ch,            \* selenium_test: new_page of the CAPTCHA handling in
                   \*   progress, and the result of reset_search
    info,          \* selenium_test: what the site's pagination text is like
    wt,            \* wait_for_captcha_solution: the time since start_time,
                   \*   its polls, its result
    blog,          \* history: the CAPTCHAs the site put up in this run
    ag             \* agent.py, analyze_case_multi_agent: the case, the tasks,
                   \*   the order they completed in, agent_analyses

\* the variables of the API crawler alone, of the browser crawlers alone
apiVars == <<attempt, cases_list, fut, listCalls, blocked, blocker, reqInBlock,
            req>>
selVars == <<variant, view, shown, fresh, pp, empties>>
stVars  == <<nv, ch, info, wt, blog, ag>>

vars == <<pc, srcPages, csv, backups, terminate, last_page, current_page,
          batch_data, faults, saved, lastSave, apiVars, selVars, stVars>>

-----------------------------------------------------------------------------
(* Bounds of the model *)

MaxPages == 6
MaxCheckpoint == 4
PageLen == 2
MaxFaults == 1
WidePage == 6

-----------------------------------------------------------------------------
(* Generic helpers *)

Range(s) == {s[i] : i \in DOMAIN s}

Max(S) == CHOOSE x \in S : \A y \in S : y <= x

NoCall == <<"none", 0, 0>>

\* no analyze_case_multi_agent was called
NoAgents == [case |-> 0, tasks |-> <<>>, order |-> <<>>, analyses |-> <<>>]

\* no wait_for_captcha_solution was called
NoWait == [elapsed |-> 0, polls |-> 0, raised |-> FALSE, ret |-> "none"]

Header == <<"header">>

Row(rec) == <<"row", rec>>

\* the data rows of a CSV file, as pandas.read_csv returns them
DataRows(file) ==
    LET idx == {i \in DOMAIN file.lines : file.lines[i][1] = "row"}
    IN  {file.lines[i][2] : i \in idx}

\* the header line of a CSV file that has no column named Page
ForeignHeader == <<"header_other">>

\* "'Page' in df.columns": the first line of the file names the columns
HasPageColumn(file) == file.lines # <<>> /\ file.lines[1] = Header

Doc(id) == <<"doc", id[1], id[2]>>

-----------------------------------------------------------------------------
(* apitest_single.py *)

Api_BATCH_SIZE == 5
Api_MAX_RETRIES == 5
Api_max_workers == 5

Api_Sentinel == <<"Error fetching explanation", 0, 0>>

\* mutant: the Page of the first data row instead of the maximum
Mut_get_last_page_first(file, readOk) ==
    IF file.exists /\ readOk /\ HasPageColumn(file) /\ Len(file.lines) > 1
    THEN file.lines[2][2].Page
    ELSE 0

\* apitest_single.get_last_page; readOk = FALSE is pd.read_csv raising, which
\* it also does on a file of zero bytes; df["Page"] raises KeyError on a file
\* without that column, and the except clause returns 0
Api_get_last_page(file, readOk) ==
    IF file.exists
    THEN IF readOk /\ file.lines # <<>>
         THEN IF DataRows(file) # {}
              THEN IF HasPageColumn(file)
                   THEN Max({r.Page : r \in DataRows(file)})
                   ELSE 0
              ELSE 0
         ELSE 0
    ELSE 0

\* mutant: the crawl resumes at the checkpoint page itself
Mut_start_page_same(last) == last

\* main: start_page = last_page + 1
Api_start_page(last) == last + 1

\* the stubs the site lists on page p (case_data["data"]["data"])
Api_Stubs(p) ==
    IF p \in 1..srcPages THEN [i \in 1..PageLen |-> <<p, i>>] ELSE <<>>

\* main: case["page"] = current_page, for each stub
Api_TagPage(stubs, p) == [i \in DOMAIN stubs |-> [id |-> stubs[i], page |-> p]]

\* fetch_explanation_worker: the record built from a stub and its explanation
Api_Record(case, explanation) ==
    [Page |-> case.page, id |-> case.id, Explanation |-> explanation]

\* mutant: save_to_csv writes the header with every batch
Mut_save_csv_header_always(file, data, outcome) ==
    IF data = <<>> \/ outcome # "ok"
    THEN file
    ELSE [exists |-> TRUE,
          lines  |-> file.lines \o <<Header>> \o [i \in DOMAIN data |-> Row(data[i])]]

\* save_to_csv(data): outcome is what the file system does with the writes
Api_save_csv(file, data, outcome) ==
    IF data = <<>> \/ outcome # "ok"
    THEN file
    ELSE [exists |-> TRUE,
          lines  |-> file.lines
                     \o (IF ~file.exists THEN <<Header>> ELSE <<>>)
                     \o [i \in DOMAIN data |-> Row(data[i])]]

\* mutant: the backup is written from a buffer that was already cleared
Mut_save_backup_cleared(bk, data, outcome) ==
    IF data # <<>> /\ outcome = "primary_failed"
    THEN Append(bk, <<>>)
    ELSE bk

\* save_to_csv, lines 230-238: the emergency backup file
Api_save_backup(bk, data, outcome) ==
    IF data # <<>> /\ outcome = "primary_failed"
    THEN Append(bk, data)
    ELSE bk

\* mutant: the cursor advances by two
Mut_next_page_skip(p) == p + 2

\* main: current_page += 1
Api_next_page(p) == p + 1

\* mutant: the loop does not look at the flag
Mut_loop_ignores_flag(term) == TRUE

\* main: "while not terminate"
Api_loop_continues(term) == ~term

\* mutant: the batch is kept after it was saved
Mut_batch_kept(batch) == batch

\* main: "batch_data = []  # Clear batch after saving"
Api_cleared(batch) == <<>>

\* main: if not cases_list: break
Api_no_more_cases(cases) == cases = <<>>

\* mutant: the batch is saved only when the flag is set
Mut_flush_on_terminate_only(batch, term) == term

\* main: the flush condition after a page
Api_FlushDue(batch, term) == Len(batch) >= Api_BATCH_SIZE * PageLen \/ term

\* mutant: the wait for a block does not grow with the attempt
Mut_block_wait_flat(a) == 10

\* get_case_list, get_explanation: "wait_time = 10 + (attempt * 5)"
Api_block_wait(a) == 10 + (a * 5)

\* get_case_list, get_explanation: "wait_time = 5 + (attempt * 5)"
Api_exc_wait(a) == 5 + (a * 5)

\* mutant: the exception handler goes on after the last attempt too
Mut_exc_retries_once_more(a) == a < Api_MAX_RETRIES

\* get_case_list, get_explanation: "if attempt < MAX_RETRIES - 1" - the
\* exception handler sleeps and goes on, else it returns the failure
Api_exc_retries(a) == a < Api_MAX_RETRIES - 1

\* create_session: Retry(total=MAX_RETRIES, ...), mounted on the session -
\* the adapter repeats the HTTP exchange of one session.post or session.get
\* after a connection error or a status of status_forcelist, up to total
\* times, before it returns the response or raises
Api_Retry_total == Api_MAX_RETRIES

\* the numbers of HTTP exchanges one session.post or session.get can make
Api_Tries == 1..(1 + Api_Retry_total)

NoReq == [resp |-> "none", slept |-> 0, http |-> 0]

\* history of a call at attempt a whose session.post or session.get made k
\* HTTP exchanges and was answered with resp: the answer, the time.sleep
\* that follows it (else the sleep before), the HTTP exchanges of the call
Api_Noted(h, a, resp, k) ==
    [resp |-> resp,
     slept |-> CASE resp = "block" -> Api_block_wait(a)
                 [] resp \in {"exc", "bad"} /\ Api_exc_retries(a) -> Api_exc_wait(a)
                 [] OTHER -> h.slept,
     http |-> h.http + k]

\* a request dispatched by call c, answered with resp
Api_Track(c, resp) ==
    /\ reqInBlock' = (blocked /\ blocker # c)
    /\ blocked' = CASE resp = "block" -> TRUE
                    [] resp = "ok"    -> FALSE
                    [] OTHER          -> blocked
    /\ blocker' = CASE resp = "block" /\ ~blocked -> c
                    [] resp = "ok"                -> NoCall
                    [] OTHER                      -> blocker

\* the answers the environment may give to the request of a call that is at
\* attempt number a: a call's first fault is drawn from the fault budget.
\* "block" is a body with the marker ADALET_RUNTIME_EXCEPTION, "exc" a
\* transport error or an error status, "bad" a body that is not JSON or
\* lacks the expected fields (response.json() or the subscript raises)
Api_Responses(a) ==
    IF a > 0 \/ faults < MaxFaults THEN {"ok", "block", "exc", "bad"} ELSE {"ok"}

\* a call's first fault, and every session call that the adapter repeats,
\* is drawn from the fault budget
Api_FaultCount(a, resp, k) ==
    faults + (IF a = 0 /\ resp # "ok" THEN 1 ELSE 0) + (IF k > 1 THEN 1 ELSE 0)

SaveOutcomes ==
    IF faults < MaxFaults THEN {"ok", "primary_failed", "both_failed"} ELSE {"ok"}

SaveFaultCount(data, outcome) ==
    IF data # <<>> /\ outcome # "ok" THEN faults + 1 ELSE faults

\* the sink a prior run left behind with checkpoint c: no file when c = 0,
\* else the header and the records of pages 1..c, as save_to_csv appends them
PriorRows(c) ==
    [k \in 1..(c * PageLen) |->
        LET p == ((k - 1) \div PageLen) + 1
            i == ((k - 1) % PageLen) + 1
        IN  Row([Page |-> p, id |-> <<p, i>>, Explanation |-> Doc(<<p, i>>)])]

PriorSink(c) ==
    IF c = 0
    THEN [exists |-> FALSE, lines |-> <<>>]
    ELSE [exists |-> TRUE, lines |-> <<Header>> \o PriorRows(c)]

\* the checkpoint: max Page over the rows of the primary sink
Checkpoint(file) == Api_get_last_page(file, TRUE)

NoSave == [data |-> <<>>, outcome |-> "none", before |-> 0]

\* a call save_to_csv(data) whose writes end as outcome says
Api_Save(data, outcome) ==
    /\ csv' = Api_save_csv(csv, data, outcome)
    /\ backups' = Api_save_backup(backups, data, outcome)
    /\ saved' = saved \o data
    /\ lastSave' = [data |-> data, outcome |-> outcome, before |-> Checkpoint(csv)]
    /\ faults' = SaveFaultCount(data, outcome)

\* the browser crawlers' variables, in a run of the API crawler
NoBrowser ==
    /\ variant = 0
    /\ view = "blank"
    /\ shown = 0
    /\ fresh = FALSE
    /\ pp = <<>>
    /\ empties = 0
    /\ nv = <<>>
    /\ ch = <<>>
    /\ info = "none"
    /\ wt = NoWait
    /\ ag = NoAgents
    /\ blog = <<>>

Api_Init ==
    /\ pc = "start"
    /\ srcPages \in 1..MaxPages
    /\ \E c \in 0..MaxCheckpoint : c <= srcPages /\ csv = PriorSink(c)
    /\ backups = <<>>
    /\ terminate = FALSE
    /\ last_page = 0
    /\ current_page = 0
    /\ batch_data = <<>>
    /\ attempt = 0
    /\ cases_list = <<>>
    /\ fut = <<>>
    /\ faults = 0
    /\ listCalls = {}
    /\ saved = <<>>
    /\ lastSave = NoSave
    /\ blocked = FALSE
    /\ blocker = NoCall
    /\ reqInBlock = FALSE
    /\ req = NoReq
    /\ NoBrowser

\* main, lines 242-253: get_last_page, initialize_search
Api_Start ==
    /\ pc = "start"
    /\ \E readOk \in BOOLEAN, initOk \in BOOLEAN :
         /\ ~readOk => csv.exists /\ faults < MaxFaults
         /\ faults' = IF readOk THEN faults ELSE faults + 1
         /\ last_page' = Api_get_last_page(csv, readOk)
         /\ IF initOk
            THEN /\ current_page' = Api_start_page(last_page')
                 /\ pc' = "loop"
            ELSE /\ current_page' = current_page
                 /\ pc' = "done"
    /\ batch_data' = <<>>
    /\ UNCHANGED <<srcPages, csv, backups, terminate, attempt, cases_list,
                   fut, listCalls, saved, lastSave, blocked, blocker,
                   reqInBlock, req>>
    /\ UNCHANGED <<selVars, stVars>>

\* main, lines 255-259: while not terminate; get_case_list(session, current_page)
Api_Loop ==
    /\ pc = "loop"
    /\ IF ~Api_loop_continues(terminate)
       THEN /\ pc' = "final"
            /\ UNCHANGED <<listCalls, attempt, req>>
       ELSE /\ pc' = "list"
            /\ listCalls' = listCalls \cup {current_page}
            /\ attempt' = 0
            /\ req' = NoReq
    /\ UNCHANGED <<srcPages, csv, backups, terminate, last_page,
                   current_page, batch_data, cases_list, fut, faults, saved,
                   lastSave, blocked, blocker, reqInBlock>>
    /\ UNCHANGED <<selVars, stVars>>

\* get_case_list, one iteration of the attempt loop, and main lines 262-271
Api_ListAttempt ==
    /\ pc = "list"
    /\ \E resp \in Api_Responses(attempt), k \in Api_Tries :
         /\ faults' = Api_FaultCount(attempt, resp, k)
         /\ faults' <= MaxFaults
         /\ Api_Track(<<"list", current_page, 0>>, resp)
         /\ req' = Api_Noted(req, attempt, resp, k)
         /\ CASE resp = "ok" ->
                   /\ attempt' = attempt
                   /\ IF Api_no_more_cases(Api_Stubs(current_page))
                      THEN /\ pc' = "final"
                           /\ UNCHANGED <<cases_list, fut>>
                      ELSE /\ cases_list' = Api_TagPage(Api_Stubs(current_page), current_page)
                           /\ fut' = [i \in DOMAIN Api_Stubs(current_page) |->
                                        [st |-> "queued", attempt |-> 0,
                                         res |-> Api_Sentinel, req |-> NoReq]]
                           /\ pc' = "pool"
              [] resp = "block" ->
                   /\ attempt' = attempt + 1
                   /\ pc' = IF attempt + 1 < Api_MAX_RETRIES THEN "list" ELSE "final"
                   /\ UNCHANGED <<cases_list, fut>>
              [] resp \in {"exc", "bad"} ->
                   /\ attempt' = attempt + 1
                   /\ pc' = IF Api_exc_retries(attempt) THEN "list" ELSE "final"
                   /\ UNCHANGED <<cases_list, fut>>
    /\ UNCHANGED <<srcPages, csv, backups, terminate, last_page,
                   current_page, batch_data, listCalls, saved, lastSave>>
    /\ UNCHANGED <<selVars, stVars>>

Api_Running == Cardinality({i \in DOMAIN fut : fut[i].st = "run"})

\* mutant: the pool starts a thread for every task
Mut_pool_unbounded(running) == TRUE

\* ThreadPoolExecutor(max_workers=5): a task starts only while fewer than
\* max_workers tasks are running
Api_pool_has_idle(running) == running < Api_max_workers

\* mutant: the results are paired with the stubs in reverse order
Mut_case_data_reversed ==
    [i \in DOMAIN fut |-> Api_Record(cases_list[i], fut[Len(fut) + 1 - i].res)]

\* process_case_batch: a thread of the pool takes the next task of the queue
\* (ThreadPoolExecutor(max_workers=5): tasks start in the order submitted,
\* while fewer than max_workers of them are running)
Api_WorkerStart(i) ==
    /\ pc = "pool"
    /\ fut[i].st = "queued"
    /\ \A j \in 1..(i - 1) : fut[j].st # "queued"
    /\ Api_pool_has_idle(Api_Running)
    /\ fut' = [fut EXCEPT ![i].st = "run"]
    /\ UNCHANGED <<pc, srcPages, csv, backups, terminate, last_page,
                   current_page, batch_data, attempt, cases_list, faults,
                   listCalls, saved, lastSave, blocked, blocker, reqInBlock,
                   req>>
    /\ UNCHANGED <<selVars, stVars>>

\* get_explanation, one iteration of the attempt loop, run by a pool worker
Api_Worker(i) ==
    /\ pc = "pool"
    /\ fut[i].st = "run"
    /\ \E resp \in Api_Responses(fut[i].attempt), k \in Api_Tries :
         /\ faults' = Api_FaultCount(fut[i].attempt, resp, k)
         /\ faults' <= MaxFaults
         /\ Api_Track(<<"detail", cases_list[i].id[1], cases_list[i].id[2]>>, resp)
         /\ LET noted == Api_Noted(fut[i].req, fut[i].attempt, resp, k)
            IN  fut' = [fut EXCEPT ![i] =
               CASE resp = "ok" ->
                      [st |-> "done", attempt |-> fut[i].attempt,
                       res |-> Doc(cases_list[i].id), req |-> noted]
                 [] resp = "block" ->
                      [st |-> IF fut[i].attempt + 1 < Api_MAX_RETRIES
                              THEN "run" ELSE "done",
                       attempt |-> fut[i].attempt + 1, res |-> Api_Sentinel,
                       req |-> noted]
                 [] resp \in {"exc", "bad"} ->
                      [st |-> IF Api_exc_retries(fut[i].attempt)
                              THEN "run" ELSE "done",
                       attempt |-> fut[i].attempt + 1, res |-> Api_Sentinel,
                       req |-> noted]]
    /\ UNCHANGED <<pc, srcPages, csv, backups, terminate, last_page,
                   current_page, batch_data, attempt, cases_list, listCalls, saved,
                   lastSave, req>>
    /\ UNCHANGED <<selVars, stVars>>

\* mutant: a stub whose fetch failed yields no record
Mut_case_data_drop ==
    LET all == [i \in DOMAIN fut |-> Api_Record(cases_list[i], fut[i].res)]
    IN  SelectSeq(all, LAMBDA r : r.Explanation # Api_Sentinel)

\* process_case_batch: the records in submission order
Api_case_data == [i \in DOMAIN fut |-> Api_Record(cases_list[i], fut[i].res)]

\* mutant: process_case_batch returns without waiting for the workers
Mut_no_barrier(f) == TRUE

\* process_case_batch: future.result() of every future has returned and the
\* with block of the executor has been left
Api_all_joined(f) == \A i \in DOMAIN f : f[i].st = "done"

\* process_case_batch returns (all futures done); main, lines 272-280
Api_Join ==
    /\ pc = "pool"
    /\ Api_all_joined(fut)
    /\ LET batch == batch_data \o Api_case_data
       IN  IF Api_FlushDue(batch, terminate)
           THEN \E outcome \in SaveOutcomes :
                  /\ Api_Save(batch, outcome)
                  /\ batch_data' = Api_cleared(batch)
           ELSE /\ batch_data' = batch
                /\ UNCHANGED <<csv, backups, saved, lastSave, faults>>
    /\ current_page' = Api_next_page(current_page)
    /\ fut' = <<>>
    /\ cases_list' = <<>>
    /\ pc' = "loop"
    /\ UNCHANGED <<srcPages, terminate, last_page, attempt, listCalls,
                   blocked, blocker, reqInBlock, req>>
    /\ UNCHANGED <<selVars, stVars>>

\* mutant: the remaining data are not saved
Mut_remaining_never(batch) == FALSE

\* main: "if batch_data:" before the final save
Api_remaining(batch) == batch # <<>>

\* main, lines 282-287: save any remaining data
Api_Final ==
    /\ pc = "final"
    /\ IF Api_remaining(batch_data)
       THEN \E outcome \in SaveOutcomes : Api_Save(batch_data, outcome)
       ELSE UNCHANGED <<csv, backups, saved, lastSave, faults>>
    /\ pc' = "done"
    /\ UNCHANGED <<srcPages, terminate, last_page, current_page,
                   batch_data, attempt, cases_list, fut, listCalls,
                   blocked, blocker, reqInBlock, req>>
    /\ UNCHANGED <<selVars, stVars>>

\* signal_handler: SIGINT sets the flag
Api_Signal ==
    /\ pc # "done"
    /\ ~terminate
    /\ terminate' = TRUE
    /\ UNCHANGED <<pc, srcPages, csv, backups, last_page, current_page,
                   batch_data, attempt, cases_list, fut, faults, listCalls,
                   saved, lastSave, blocked, blocker, reqInBlock, req>>
    /\ UNCHANGED <<selVars, stVars>>

Api_Next ==
    \/ Api_Start
    \/ Api_Loop
    \/ Api_ListAttempt
    \/ \E i \in DOMAIN fut : Api_WorkerStart(i)
    \/ \E i \in DOMAIN fut : Api_Worker(i)
    \/ Api_Join
    \/ Api_Final
    \/ Api_Signal

SpecApi == Api_Init /\ [][Api_Next]_vars

\* the steps of the main thread and of the pool workers
Api_Run ==
    \/ Api_Start
    \/ Api_Loop
    \/ Api_ListAttempt
    \/ \E i \in DOMAIN fut : Api_WorkerStart(i)
    \/ \E i \in DOMAIN fut : Api_Worker(i)
    \/ Api_Join
    \/ Api_Final

\* the threads are scheduled, and every sleep and request of theirs ends
FairSpecApi == SpecApi /\ WF_vars(Api_Run)

\* SpecPool: a fresh run of apitest_single.py from the call of
\* process_case_batch for page 1, on a site with this one page, which lists
\* up to WidePage stubs - more than the pool has threads
Pool_Init ==
    /\ pc = "pool"
    /\ srcPages = 1
    /\ csv = PriorSink(0)
    /\ backups = <<>>
    /\ terminate = FALSE
    /\ last_page = 0
    /\ current_page = 1
    /\ batch_data = <<>>
    /\ attempt = 0
    /\ \E n \in 1..WidePage :
         /\ cases_list = Api_TagPage([i \in 1..n |-> <<1, i>>], 1)
         /\ fut = [i \in 1..n |-> [st |-> "queued", attempt |-> 0,
                                   res |-> Api_Sentinel, req |-> NoReq]]
    /\ faults = 0
    /\ listCalls = {1}
    /\ saved = <<>>
    /\ lastSave = NoSave
    /\ blocked = FALSE
    /\ blocker = NoCall
    /\ reqInBlock = FALSE
    /\ req = [resp |-> "ok", slept |-> 0, http |-> 1]
    /\ NoBrowser

Pool_Next ==
    \/ \E i \in DOMAIN fut : Api_WorkerStart(i)
    \/ \E i \in DOMAIN fut : Api_Worker(i)
    \/ Api_Join
    \/ Api_Loop
    \/ Api_ListAttempt
    \/ Api_Final
    \/ Api_Signal

SpecPool == Pool_Init /\ [][Pool_Next]_vars

-----------------------------------------------------------------------------
(* Claims about apitest_single.py, checked under SpecApi *)

PagesOf(recs) == {recs[i].Page : i \in DOMAIN recs}

\* C1 - resume idempotence: with C the value get_last_page returned at
\* startup, no list page <= C is requested, and no record tagged Page <= C is
\* listed, appended to the batch or passed to save_to_csv.
Thm_C1_ResumeIdempotence ==
    pc # "start" =>
        /\ \A p \in listCalls : p > last_page
        /\ \A i \in DOMAIN cases_list : cases_list[i].page > last_page
        /\ \A p \in PagesOf(batch_data) \cup PagesOf(saved) : p > last_page

Wit_C1_ResumedAndSaved ==
    /\ last_page > 0
    /\ lastSave.outcome = "ok"
    /\ listCalls # {}

\* the scenario of C2: checkpoint 4 read at startup, a site of 6 pages
C2_Scenario ==
    /\ pc # "start"
    /\ current_page > 0
    /\ srcPages = 6
    /\ last_page = 4

\* C2 as stated - with checkpoint 4 and a site of 6 pages the run requests
\* the list pages 5 and 6 and no other page.
Cex_C2_OnlyPages5And6 == C2_Scenario => listCalls \subseteq {5, 6}

\* C2 as amended - with checkpoint 4 and a site of 6 pages the run requests
\* list pages 5, 6 and 7 and no other: page 7 is the request whose empty
\* answer signals end-of-data; a run that is neither cancelled nor hit by a
\* fault ends having requested exactly 5, 6 and 7 and having saved the
\* records of pages 5 and 6.
Thm_C2_Pages5To7 ==
    C2_Scenario =>
        /\ listCalls \subseteq {5, 6, 7}
        /\ (pc = "done" /\ ~terminate /\ faults = 0) =>
               /\ listCalls = {5, 6, 7}
               /\ PagesOf(saved) = {5, 6}

Wit_C2_CleanRunDone ==
    /\ C2_Scenario
    /\ pc = "done"
    /\ ~terminate
    /\ faults = 0
    /\ 7 \in listCalls

\* C6 as stated - block isolation: from the observation of the block marker
\* until a response without it, no list or detail request is dispatched (the
\* polls of the call that is waiting out the block are not counted).
Cex_C6_BlockIsolation == ~reqInBlock

\* the stubs of the pages this run has completed
Api_DonePages == (last_page + 1)..(current_page - 1)

\* the records this run appended to the batch (the final save leaves the
\* batch as it is, so at "done" they are all in saved)
Api_Emitted == IF pc = "done" THEN saved ELSE saved \o batch_data

Thm_C8_FallbackOnSinkFailure ==
    /\ lastSave.outcome \in {"primary_failed", "both_failed"} =>
          Checkpoint(csv) = lastSave.before
    /\ lastSave.outcome = "primary_failed" =>
          /\ backups # <<>>
          /\ backups[Len(backups)] = lastSave.data
          /\ lastSave.data # <<>>

Wit_C8_Pages1And2ToBackup ==
    /\ lastSave.outcome = "primary_failed"
    /\ PagesOf(lastSave.data) = {1, 2}
    /\ Len(lastSave.data) = 2 * PageLen

\* C9 as stated - the checkpoint is a page p such that every record of every
\* page <= p is in the primary sink.
Cex_C9_CheckpointIsComplete ==
    \A p \in 1..Checkpoint(csv) : \A i \in DOMAIN Api_Stubs(p) :
        \E r \in DataRows(csv) : r.id = <<p, i>> /\ r.Page = p

-----------------------------------------------------------------------------
(* The browser crawlers: what they share *)

SelMaxPages == 3

Sel_BATCH_SIZE == 2
Sel_MAX_RETRIES == 3

\* the API crawler's variables, in a run of a browser crawler
NoApi ==
    /\ attempt = 0
    /\ cases_list = <<>>
    /\ fut = <<>>
    /\ listCalls = {}
    /\ blocked = FALSE
    /\ blocker = NoCall
    /\ reqInBlock = FALSE
    /\ req = NoReq

Min(a, b) == IF a <= b THEN a ELSE b

\* the results table #detayAramaSonuclar is in the page
TableShown(v) == v \in {"results", "challenge"}

\* get_last_page of the browser crawlers:
\* "if not df.empty and 'Page' in df.columns"
Sel_get_last_page(file, readOk) ==
    IF file.exists
    THEN IF readOk /\ file.lines # <<>>
         THEN IF DataRows(file) # {} /\ HasPageColumn(file)
              THEN Max({r.Page : r \in DataRows(file)})
              ELSE 0
         ELSE 0
    ELSE 0

\* process_page: case_info of the row with identity id, tagged current_page
Sel_Record(tag, id) == [Page |-> tag, id |-> id, Explanation |-> Doc(id)]

\* save_to_csv of the browser crawlers
Sel_Save(data, outcome) == Api_Save(data, outcome)

\* main: "if len(batch_data) >= BATCH_SIZE * 10 or terminate: save; clear"
Sel_FlushIf(due, batch) ==
    IF due /\ batch # <<>>
    THEN /\ \E outcome \in SaveOutcomes : Sel_Save(batch, outcome)
         /\ batch_data' = <<>>
    ELSE /\ batch_data' = IF due THEN <<>> ELSE batch
         /\ UNCHANGED <<csv, backups, saved, lastSave, faults>>

\* process_page: the locals before the rows are read
NoPP == [cases |-> <<>>, rowi |-> 0, retries |-> 0, snap |-> 0, bad |-> FALSE,
         page |-> 0, short |-> FALSE]

\* the answers of the page to the click on a row that process_page holds:
\* a detached row raises, and no explanation loads while the CAPTCHA element
\* is on the page
Sel_RowOutcomes ==
    IF ~fresh THEN {"exc"}
    ELSE IF view = "challenge" THEN {"short", "timeout"}
    ELSE IF faults < MaxFaults
         THEN {"ok", "short", "timeout", "exc", "fewcols"}
         ELSE {"ok"}

Sel_RowFaultCount(o) ==
    IF fresh /\ view = "results" /\ o # "ok" THEN faults + 1 ELSE faults

\* the site puts up a CAPTCHA: a page of its own, or an element on the
\* results page
Env_Block ==
    /\ pc \notin {"sc_start", "st_start", "done", "crashed"}
    /\ view = "results"
    /\ faults < MaxFaults
    /\ faults' = faults + 1
    /\ \E kind \in {"captcha", "challenge"} :
         /\ view' = kind
         /\ fresh' = IF kind = "captcha" THEN FALSE ELSE fresh
         /\ blog' = Append(blog, [top |-> pc \in {"st_loop", "pp_top"},
                                  page |-> current_page, kind |-> kind,
                                  polls |-> 0, back |-> 0, res |-> "none",
                                  clear |-> FALSE, det |-> 0,
                                  navfail |-> FALSE, kept |-> 0])
    /\ UNCHANGED <<pc, srcPages, csv, backups, terminate, last_page,
                   current_page, batch_data, saved, lastSave, variant, shown,
                   pp, empties, apiVars, nv, ch, info, wt, ag>>

\* the user solves the CAPTCHA element shown on the results page
Env_SolveChallenge ==
    /\ view = "challenge"
    /\ view' = "results"
    /\ UNCHANGED <<pc, srcPages, csv, backups, terminate, last_page,
                   current_page, batch_data, faults, saved, lastSave, variant,
                   shown, fresh, pp, empties, apiVars, stVars>>

\* signal_handler of the browser crawlers
Sel_Signal ==
    /\ pc \notin {"done", "crashed"}
    /\ ~terminate
    /\ terminate' = TRUE
    /\ UNCHANGED <<pc, srcPages, csv, backups, last_page, current_page,
                   batch_data, faults, saved, lastSave, selVars, apiVars,
                   stVars>>

-----------------------------------------------------------------------------
(* selenium_crawler.py (variant 1) and selenium_crawler2.py (variant 2) *)

\* selenium_crawler2.check_for_captcha
Sc_check_for_captcha(v) == v # "results"

\* selenium_crawler2.wait_for_captcha_solution: how the wait can end; the
\* user may bring the results back on the page they were on or on page 1
Sc_wait_outcomes(v, s) ==
    IF TableShown(v)
    THEN {[solved |-> TRUE, view |-> v, shown |-> s]}
    ELSE {[solved |-> TRUE, view |-> "results", shown |-> t] : t \in {s, 1} \ {0}}
         \cup {[solved |-> FALSE, view |-> v, shown |-> s]}

\* the CAPTCHA check of selenium_crawler2 followed by the wait when it is up
Sc_check_and_wait(v, s) ==
    IF variant = 2 /\ Sc_check_for_captcha(v)
    THEN Sc_wait_outcomes(v, s)
    ELSE {[solved |-> TRUE, view |-> v, shown |-> s]}

\* selenium_crawler2.reset_search_if_needed: how it can end
Sc_reset_outcomes(v, s) ==
    IF ~TableShown(v)
    THEN {IF w.solved
          THEN [ok |-> TRUE, view |-> "results", shown |-> 1]
          ELSE [ok |-> FALSE, view |-> w.view, shown |-> w.shown]
            : w \in Sc_wait_outcomes(v, s)}
         \cup {[ok |-> FALSE, view |-> "main", shown |-> 0]}
    ELSE {[ok |-> FALSE, view |-> v, shown |-> s]}

Sc_Init ==
    /\ pc = "sc_start"
    /\ variant \in {1, 2}
    /\ srcPages \in 1..SelMaxPages
    /\ \E c \in 0..MaxCheckpoint : c <= srcPages /\ csv = PriorSink(c)
    /\ backups = <<>>
    /\ terminate = FALSE
    /\ last_page = 0
    /\ current_page = 0
    /\ batch_data = <<>>
    /\ faults = 0
    /\ saved = <<>>
    /\ lastSave = NoSave
    /\ view = "blank"
    /\ shown = 0
    /\ fresh = FALSE
    /\ pp = NoPP
    /\ empties = 0
    /\ nv = <<>>
    /\ ch = <<>>
    /\ info = "none"
    /\ wt = NoWait
    /\ ag = NoAgents
    /\ blog = <<>>
    /\ NoApi

\* main up to the crawl loop: get_last_page, driver.get, the initial search,
\* which leaves the browser on page 1 of the results
Sc_Start ==
    /\ pc = "sc_start"
    /\ \E readOk \in BOOLEAN, searchOk \in BOOLEAN :
         /\ ~readOk => csv.exists /\ faults < MaxFaults
         /\ faults' = IF readOk THEN faults ELSE faults + 1
         /\ last_page' = Sel_get_last_page(csv, readOk)
         /\ current_page' = last_page' + 1
         /\ IF searchOk
            THEN /\ view' = "results"
                 /\ shown' = 1
                 /\ pc' = "sc_loop"
            ELSE /\ view' = "main"
                 /\ shown' = 0
                 /\ pc' = "done"
    /\ batch_data' = <<>>
    /\ UNCHANGED <<srcPages, csv, backups, terminate, saved, lastSave, variant,
                   fresh, pp, empties, apiVars, stVars>>

\* main: while not terminate; process_page up to the wait for the rows
Sc_Loop ==
    /\ pc = "sc_loop"
    /\ IF terminate
       THEN /\ pc' = "sc_final"
            /\ UNCHANGED <<view, shown, pp>>
       ELSE /\ pp' = [NoPP EXCEPT !.page = current_page]
            /\ \E w \in Sc_check_and_wait(view, shown) :
                 /\ view' = w.view
                 /\ shown' = w.shown
                 /\ pc' = IF w.solved THEN "sc_rows" ELSE "sc_after"
    /\ UNCHANGED <<srcPages, csv, backups, terminate, last_page, current_page,
                   batch_data, faults, saved, lastSave, variant, fresh,
                   empties, apiVars, stVars>>

\* process_page: the wait for the rows of the table
Sc_Rows ==
    /\ pc = "sc_rows"
    /\ IF TableShown(view)
       THEN /\ fresh' = TRUE
            /\ pp' = [pp EXCEPT !.snap = shown, !.rowi = 1]
            /\ pc' = "sc_row"
            /\ UNCHANGED <<view, shown>>
       ELSE /\ \E w \in Sc_check_and_wait(view, shown) :
                 /\ view' = w.view
                 /\ shown' = w.shown
            /\ pc' = "sc_after"
            /\ UNCHANGED <<fresh, pp>>
    /\ UNCHANGED <<srcPages, csv, backups, terminate, last_page, current_page,
                   batch_data, faults, saved, lastSave, variant, empties,
                   apiVars, stVars>>

\* process_page: one pass of "while retries < MAX_RETRIES and not terminate"
\* for the row at pp.rowi, or the step to the next row
Sc_RowAttempt ==
    /\ pc = "sc_row"
    /\ IF pp.rowi > PageLen
       THEN /\ pc' = "sc_after"
            /\ UNCHANGED <<pp, faults, view, shown>>
       ELSE IF terminate \/ pp.retries >= Sel_MAX_RETRIES
       THEN /\ pp' = [pp EXCEPT !.rowi = @ + 1, !.retries = 0, !.bad = FALSE]
            /\ UNCHANGED <<pc, faults, view, shown>>
       ELSE IF pp.bad
       THEN UNCHANGED <<pc, pp, faults, view, shown>>
       ELSE \E o \in Sel_RowOutcomes :
              /\ faults' = Sel_RowFaultCount(o)
              /\ CASE o = "ok" \/ (o = "short" /\ variant = 1) ->
                        /\ pp' = [pp EXCEPT
                             !.cases = Append(@, Sel_Record(pp.page, <<pp.snap, pp.rowi>>)),
                             !.rowi = @ + 1, !.retries = 0]
                        /\ UNCHANGED <<pc, view, shown>>
                   [] o = "fewcols" ->
                        /\ pp' = [pp EXCEPT !.bad = TRUE]
                        /\ UNCHANGED <<pc, view, shown>>
                   [] o = "exc" \/ (o = "timeout" /\ variant = 1) ->
                        /\ pp' = [pp EXCEPT !.retries = @ + 1]
                        /\ UNCHANGED <<pc, view, shown>>
                   [] OTHER ->
                        \E w \in Sc_check_and_wait(view, shown) :
                          /\ view' = w.view
                          /\ shown' = w.shown
                          /\ IF w.solved
                             THEN pp' = [pp EXCEPT !.retries = @ + 1] /\ pc' = pc
                             ELSE pp' = pp /\ pc' = "sc_after"
    /\ UNCHANGED <<srcPages, csv, backups, terminate, last_page, current_page,
                   batch_data, saved, lastSave, variant, fresh, empties,
                   apiVars, stVars>>

\* selenium_crawler.main, lines 147-153: extend the batch, save when due
Sc1_After ==
    /\ pc = "sc_after"
    /\ variant = 1
    /\ LET batch == batch_data \o pp.cases
       IN  Sel_FlushIf(Len(batch) >= Sel_BATCH_SIZE * PageLen, batch)
    /\ pc' = "sc_next"
    /\ UNCHANGED <<srcPages, terminate, last_page, current_page, variant, view,
                   shown, fresh, pp, empties, apiVars, stVars>>

\* selenium_crawler2.main, lines 311-354: empty-page handling, save, break
Sc2_After ==
    /\ pc = "sc_after"
    /\ variant = 2
    /\ IF pp.cases = <<>> /\ empties + 1 >= 2
       THEN \E r \in Sc_reset_outcomes(view, shown) :
              IF r.ok
              THEN /\ view' = r.view
                   /\ shown' = Min(current_page, srcPages)
                   /\ terminate' = (terminate \/ current_page > srcPages)
                   /\ empties' = 0
                   /\ pc' = "sc_loop"
                   /\ UNCHANGED <<batch_data, csv, backups, saved, lastSave, faults>>
              ELSE /\ view' = r.view
                   /\ shown' = r.shown
                   /\ terminate' = TRUE
                   /\ empties' = empties + 1
                   /\ Sel_FlushIf(TRUE, batch_data)
                   /\ pc' = "sc_final"
       ELSE /\ empties' = IF pp.cases = <<>> THEN empties + 1 ELSE 0
            /\ LET batch == batch_data \o pp.cases
               IN  Sel_FlushIf(Len(batch) >= Sel_BATCH_SIZE * PageLen \/ terminate, batch)
            /\ pc' = IF terminate THEN "sc_final" ELSE "sc_next"
            /\ UNCHANGED <<view, shown, terminate>>
    /\ UNCHANGED <<srcPages, last_page, current_page, variant, fresh, pp,
                   apiVars, stVars>>

\* main: the step to the next page (the try block around next_button)
Sc_NextPage ==
    /\ pc = "sc_next"
    /\ IF ~TableShown(view)
       THEN /\ \E w \in Sc_check_and_wait(view, shown) :
                 /\ view' = w.view
                 /\ shown' = w.shown
                 /\ pc' = IF variant = 2 /\ w.solved THEN "sc_loop" ELSE "sc_final"
            /\ UNCHANGED <<current_page, fresh, faults>>
       ELSE IF shown >= srcPages
       THEN /\ pc' = "sc_final"
            /\ UNCHANGED <<view, shown, current_page, fresh, faults>>
       ELSE \E clickOk \in BOOLEAN :
              /\ ~clickOk => faults < MaxFaults \/ view = "challenge"
              /\ faults' = IF clickOk \/ view = "challenge" THEN faults ELSE faults + 1
              /\ IF clickOk
                 THEN /\ shown' = shown + 1
                      /\ current_page' = current_page + 1
                      /\ fresh' = FALSE
                      /\ pc' = "sc_loop"
                 ELSE /\ pc' = "sc_final"
                      /\ UNCHANGED <<shown, current_page, fresh>>
              /\ view' = view
    /\ UNCHANGED <<srcPages, csv, backups, terminate, last_page, batch_data,
                   saved, lastSave, variant, pp, empties, apiVars, stVars>>

\* main: finally - save the remaining data
Sc_Final ==
    /\ pc = "sc_final"
    /\ Sel_FlushIf(batch_data # <<>>, batch_data)
    /\ pc' = "done"
    /\ UNCHANGED <<srcPages, terminate, last_page, current_page, selVars,
                   apiVars, stVars>>

Sc_Next ==
    \/ Sc_Start
    \/ Sc_Loop
    \/ Sc_Rows
    \/ Sc_RowAttempt
    \/ Sc1_After
    \/ Sc2_After
    \/ Sc_NextPage
    \/ Sc_Final
    \/ Sel_Signal
    \/ Env_Block
    \/ Env_SolveChallenge

SpecSc == Sc_Init /\ [][Sc_Next]_vars

-----------------------------------------------------------------------------
(* Claims about selenium_crawler.py and selenium_crawler2.py, under SpecSc *)

\* the records process_page holds, the batch holds, or save_to_csv was given
Sc_Extracted == Range(pp.cases) \cup Range(batch_data) \cup Range(saved)

\* C3 as stated - after a resume the rows extracted and tagged
\* Page = Checkpoint + 1 are the rows of source page Checkpoint + 1, and no
\* row of a source page <= Checkpoint is extracted again.
Cex_C3_ResumeAtCheckpointPage ==
    pc # "sc_start" =>
        \A r \in Sc_Extracted :
            /\ r.Page = last_page + 1 => r.id[1] = last_page + 1
            /\ r.id[1] > last_page

-----------------------------------------------------------------------------
(* selenium_test.py (variant 3) *)

MaxBlockedPolls == 2

St_BATCH_SIZE == 2
St_MAX_RETRIES == 3
CAPTCHA_WAIT_TIME == 180
St_poll_sleep == 5

NoNv == [target |-> 0, cur |-> 0, ret |-> "none", ok |-> FALSE]
NoCh == [new_page |-> 0, rs |-> FALSE]

\* check_for_captcha: no results table, or a CAPTCHA element or text on the
\* results page
St_check_for_captcha(v) == v # "results"

\* main: "current_page = last_page + 1 if last_page > 0 else 1"
St_start_page(last) == IF last > 0 THEN last + 1 ELSE 1

\* mutant: the regex never matches, the default page is detected
Mut_detect_default(s) == 1

\* the page number that the regex "page\s+(\d+)" reads in the pagination text
\* when the browser is on page s: 1 when the text does not match
St_detect(s) == IF info = "pageN" THEN s ELSE 1

\* wait_for_captcha_solution: the second component of the result once the
\* table is back on page s (0 stands for None)
St_new_page(s, arg) ==
    IF info = "noinfo" THEN 0
    ELSE IF St_detect(s) # arg THEN St_detect(s) ELSE 0

\* wait_for_captcha_solution(driver, arg): how the wait can end. The table is
\* looked for every St_poll_sleep seconds for CAPTCHA_WAIT_TIME seconds; the
\* user may bring the results back on the page they were on or on page 1
St_wait_outcomes(v, s, arg) ==
    IF TableShown(v)
    THEN {[solved |-> TRUE, new_page |-> St_new_page(s, arg), view |-> v,
           shown |-> s, polls |-> 0]}
    ELSE {[solved |-> TRUE, new_page |-> St_new_page(t, arg), view |-> "results",
           shown |-> t, polls |-> k] : t \in ({s, 1} \ {0}), k \in 0..MaxBlockedPolls}
         \cup {[solved |-> FALSE, new_page |-> 0, view |-> v, shown |-> s,
                polls |-> CAPTCHA_WAIT_TIME \div St_poll_sleep]}

\* history: how wait_for_captcha_solution ended for the CAPTCHA that is up -
\* the polls that found no table, the page the results came back on, the
\* result, and what check_for_captcha says of the page at the return
St_Logged(w) ==
    IF view \in {"captcha", "challenge"} /\ blog # <<>>
    THEN [blog EXCEPT ![Len(blog)] =
            [@ EXCEPT !.polls = w.polls, !.back = w.shown,
                      !.res = IF w.solved THEN "solved" ELSE "timeout",
                      !.clear = ~St_check_for_captcha(w.view)]]
    ELSE blog

\* history: the same, with the detected page that the caller of the wait keeps
St_LoggedDet(w) ==
    IF w.new_page # 0 /\ St_Logged(w) # <<>>
    THEN [St_Logged(w) EXCEPT ![Len(blog)].det = w.new_page]
    ELSE St_Logged(w)

\* history: navigate_to_page failed after the recovery, and the caller keeps
\* the detected page
St_NavNoted ==
    IF nv.ok \/ blog = <<>>
    THEN blog
    ELSE [blog EXCEPT ![Len(blog)].navfail = TRUE,
                      ![Len(blog)].kept = ch.new_page]

\* main: "current_page += 1"
Mut_St_next_page_skip(p) == p + 2
St_next_page(p) == p + 1

\* a text of fewer than 10 characters, the empty text included
ShortText == <<"short">>

\* process_page: explanation_element.text.strip() of the row id when the
\* page answered the click with o
St_explanation(o, id) == IF o = "ok" THEN Doc(id) ELSE ShortText

\* mutant: no text is too short
Mut_too_short_never(e) == FALSE

\* process_page: "if not explanation or len(explanation) < 10"
St_too_short(e) == e = ShortText

\* process_page: case_info once case_info["Explanation"] = e is assigned
St_case_info(tag, id, e) == [Sel_Record(tag, id) EXCEPT !.Explanation = e]

\* the call of navigate_to_page(driver, target) that returns to ret
St_CallNav(target, ret) ==
    /\ nv' = [target |-> target, cur |-> 0, ret |-> ret, ok |-> FALSE]
    /\ pc' = "nav"

\* "if check_for_captcha(driver): captcha_solved, new_page =
\* wait_for_captcha_solution(driver, page); if not captcha_solved: TimedOut;
\* if new_page is not None and new_page != page: navigate_to_page(driver, page)"
\* and then Solved; Solved and TimedOut say what pc, pp and current_page become
St_handle_captcha(page, navRet, Solved, TimedOut) ==
    IF St_check_for_captcha(view)
    THEN \E w \in St_wait_outcomes(view, shown, page) :
           /\ view' = w.view
           /\ shown' = w.shown
           /\ blog' = St_LoggedDet(w)
           /\ IF ~w.solved
              THEN TimedOut /\ UNCHANGED <<nv, ch>>
              ELSE IF w.new_page # 0
              THEN /\ ch' = [ch EXCEPT !.new_page = w.new_page]
                   /\ St_CallNav(page, navRet)
                   /\ UNCHANGED <<pp, current_page>>
              ELSE Solved /\ UNCHANGED <<nv, ch>>
    ELSE Solved /\ UNCHANGED <<view, shown, blog, nv, ch>>

\* what no step of selenium_test.main changes after the start
stFixed == <<srcPages, last_page, variant, empties, info, wt, ag, apiVars>>
sinkVars == <<csv, backups, saved, lastSave>>

St_Init ==
    /\ pc = "st_start"
    /\ variant = 3
    /\ srcPages \in 1..SelMaxPages
    /\ \E c \in 0..MaxCheckpoint : c <= srcPages /\ csv = PriorSink(c)
    /\ backups = <<>>
    /\ terminate = FALSE
    /\ last_page = 0
    /\ current_page = 0
    /\ batch_data = <<>>
    /\ faults = 0
    /\ saved = <<>>
    /\ lastSave = NoSave
    /\ view = "blank"
    /\ shown = 0
    /\ fresh = FALSE
    /\ pp = NoPP
    /\ empties = 0
    /\ nv = NoNv
    /\ ch = NoCh
    /\ info \in {"pageN", "nomatch", "noinfo"}
    /\ wt = NoWait
    /\ ag = NoAgents
    /\ blog = <<>>
    /\ NoApi

\* main, lines 483-521: get_last_page, driver.get, the wait for the user on
\* the page without results, the initial search, the call of
\* navigate_to_page. The returns before "batch_data = []" reach the finally
\* block with batch_data unbound: "crashed"
St_Start ==
    /\ pc = "st_start"
    /\ \E readOk \in BOOLEAN, searchOk \in BOOLEAN :
         /\ ~readOk => csv.exists
         /\ Cardinality({b \in {readOk, searchOk} : ~b}) + faults <= MaxFaults
         /\ faults' = faults + (IF readOk THEN 0 ELSE 1) + (IF searchOk THEN 0 ELSE 1)
         /\ last_page' = Sel_get_last_page(csv, readOk)
         /\ current_page' = St_start_page(last_page')
         /\ \E w \in St_wait_outcomes("main", 0, 1) :
              IF w.solved /\ searchOk
              THEN /\ view' = "results"
                   /\ shown' = 1
                   /\ IF current_page' > 1
                      THEN St_CallNav(current_page', "st_start_n")
                      ELSE pc' = "st_loop" /\ nv' = nv
              ELSE /\ view' = w.view
                   /\ shown' = w.shown
                   /\ pc' = "crashed"
                   /\ nv' = nv
    /\ UNCHANGED <<srcPages, terminate, batch_data, sinkVars, variant, fresh,
                   pp, empties, ch, info, wt, blog, ag, apiVars>>

\* main, lines 515-521: the result of navigate_to_page(driver, current_page)
St_StartNav ==
    /\ pc = "st_start_n"
    /\ pc' = IF nv.ok THEN "st_loop" ELSE "crashed"
    /\ nv' = NoNv
    /\ UNCHANGED <<terminate, current_page, batch_data, faults, sinkVars, view,
                   shown, fresh, pp, ch, blog, stFixed>>

\* navigate_to_page returns b
St_NavReturn(b) ==
    /\ pc' = nv.ret
    /\ nv' = [nv EXCEPT !.ok = b]

\* navigate_to_page, lines 190-215: read the page shown, go back to the
\* first page when the target is behind
St_NavBegin ==
    /\ pc = "nav"
    /\ IF info = "noinfo" \/ ~TableShown(view)
       THEN St_NavReturn(FALSE) /\ UNCHANGED <<shown, fresh>>
       ELSE IF St_detect(shown) = nv.target
       THEN St_NavReturn(TRUE) /\ UNCHANGED <<shown, fresh>>
       ELSE IF nv.target < St_detect(shown) /\ shown > 1
       THEN /\ shown' = 1
            /\ fresh' = FALSE
            /\ nv' = [nv EXCEPT !.cur = 1]
            /\ pc' = "nav_loop"
       ELSE /\ nv' = [nv EXCEPT !.cur = St_detect(shown)]
            /\ pc' = "nav_loop"
            /\ UNCHANGED <<shown, fresh>>
    /\ UNCHANGED <<terminate, current_page, batch_data, faults, sinkVars, view,
                   pp, ch, blog, stFixed>>

\* navigate_to_page, lines 218-228: "while current_page < target_page", one
\* click on the next button
St_NavStep ==
    /\ pc = "nav_loop"
    /\ IF nv.cur >= nv.target
       THEN St_NavReturn(TRUE) /\ UNCHANGED <<shown, fresh, faults>>
       ELSE IF ~TableShown(view) \/ shown >= srcPages
       THEN St_NavReturn(FALSE) /\ UNCHANGED <<shown, fresh, faults>>
       ELSE \E clickOk \in BOOLEAN :
              /\ ~clickOk => faults < MaxFaults \/ view = "challenge"
              /\ faults' = IF clickOk \/ view = "challenge" THEN faults ELSE faults + 1
              /\ IF clickOk
                 THEN /\ shown' = shown + 1
                      /\ fresh' = FALSE
                      /\ nv' = [nv EXCEPT !.cur = @ + 1]
                      /\ pc' = "nav_check"
                 ELSE St_NavReturn(FALSE) /\ UNCHANGED <<shown, fresh>>
    /\ UNCHANGED <<terminate, current_page, batch_data, sinkVars, view, pp, ch,
                   blog, stFixed>>

\* navigate_to_page, lines 230-236: the CAPTCHA check after the click; the
\* page the wait detects is dropped
St_NavCheck ==
    /\ pc = "nav_check"
    /\ IF St_check_for_captcha(view)
       THEN \E w \in St_wait_outcomes(view, shown, nv.cur) :
              /\ view' = w.view
              /\ shown' = w.shown
              /\ blog' = St_Logged(w)
              /\ IF w.solved
                 THEN pc' = "nav_loop" /\ nv' = nv
                 ELSE St_NavReturn(FALSE)
       ELSE /\ pc' = "nav_loop"
            /\ UNCHANGED <<view, shown, blog, nv>>
    /\ UNCHANGED <<terminate, current_page, batch_data, faults, sinkVars, fresh,
                   pp, ch, stFixed>>

\* main: "while not terminate", the call of process_page(driver, wait,
\* current_page)
St_Loop ==
    /\ pc = "st_loop"
    /\ IF terminate
       THEN pc' = "st_final" /\ pp' = pp
       ELSE pc' = "pp_top" /\ pp' = [NoPP EXCEPT !.page = current_page]
    /\ UNCHANGED <<terminate, current_page, batch_data, faults, sinkVars, view,
                   shown, fresh, nv, ch, blog, stFixed>>

\* process_page, lines 250-258: the CAPTCHA check before the rows are read
St_Top ==
    /\ pc = "pp_top"
    /\ St_handle_captcha(pp.page, "pp_top_n",
          pc' = "pp_rows" /\ UNCHANGED <<pp, current_page>>,
          pc' = "st_after" /\ UNCHANGED <<pp, current_page>>)
    /\ UNCHANGED <<terminate, batch_data, faults, sinkVars, fresh, stFixed>>

\* process_page, lines 259-263: "if not navigate_success: current_page =
\* new_page", and on to the rows
St_TopNav ==
    /\ pc = "pp_top_n"
    /\ pp' = IF nv.ok THEN pp ELSE [pp EXCEPT !.page = ch.new_page]
    /\ pc' = "pp_rows"
    /\ nv' = NoNv
    /\ ch' = NoCh
    /\ blog' = St_NavNoted
    /\ UNCHANGED <<terminate, current_page, batch_data, faults, sinkVars, view,
                   shown, fresh, stFixed>>

\* process_page, lines 265-293: the wait for the rows of the table; without
\* them the CAPTCHA handling and "return [], current_page"
St_Rows ==
    /\ pc = "pp_rows"
    /\ IF TableShown(view)
       THEN /\ fresh' = TRUE
            /\ pp' = [pp EXCEPT !.snap = shown, !.rowi = 1]
            /\ pc' = "pp_row"
            /\ UNCHANGED <<view, shown, blog, nv, ch, current_page>>
       ELSE /\ St_handle_captcha(pp.page, "pp_norows_n",
                  pc' = "st_after" /\ UNCHANGED <<pp, current_page>>,
                  pc' = "st_after" /\ UNCHANGED <<pp, current_page>>)
            /\ fresh' = fresh
    /\ UNCHANGED <<terminate, batch_data, faults, sinkVars, stFixed>>

\* process_page, lines 289-293
St_NoRowsNav ==
    /\ pc = "pp_norows_n"
    /\ pp' = IF nv.ok THEN pp ELSE [pp EXCEPT !.page = ch.new_page]
    /\ pc' = "st_after"
    /\ nv' = NoNv
    /\ ch' = NoCh
    /\ blog' = St_NavNoted
    /\ UNCHANGED <<terminate, current_page, batch_data, faults, sinkVars, view,
                   shown, fresh, stFixed>>

\* process_page, lines 295-390: one pass of "while retries < MAX_RETRIES and
\* not terminate" for the row at pp.rowi, or the step to the next row
St_RowAttempt ==
    /\ pc = "pp_row"
    /\ IF pp.rowi > PageLen \/ terminate
       THEN /\ pc' = "pp_nocases"
            /\ UNCHANGED <<pp, faults, view, shown, blog, nv, ch, current_page>>
       ELSE IF pp.retries >= St_MAX_RETRIES
       THEN /\ pp' = [pp EXCEPT !.rowi = @ + 1, !.retries = 0, !.short = FALSE]
            /\ UNCHANGED <<pc, faults, view, shown, blog, nv, ch, current_page>>
       ELSE \E o \in Sel_RowOutcomes :
              LET id == <<pp.snap, pp.rowi>>
                  explanation == St_explanation(o, id)
              IN
              /\ faults' = Sel_RowFaultCount(o)
              /\ CASE o \in {"ok", "short"} /\ ~St_too_short(explanation) ->
                        /\ pp' = [pp EXCEPT
                             !.cases = Append(@, St_case_info(pp.page, id, explanation)),
                             !.rowi = @ + 1, !.retries = 0, !.short = FALSE]
                        /\ UNCHANGED <<pc, view, shown, blog, nv, ch, current_page>>
                   [] o = "fewcols" ->
                        /\ pp' = [pp EXCEPT !.rowi = @ + 1, !.retries = 0,
                                            !.short = FALSE]
                        /\ UNCHANGED <<pc, view, shown, blog, nv, ch, current_page>>
                   [] o = "exc" ->
                        /\ pp' = [pp EXCEPT !.retries = @ + 1]
                        /\ UNCHANGED <<pc, view, shown, blog, nv, ch, current_page>>
                   [] OTHER ->
                        St_handle_captcha(pp.page, "pp_row_n",
                           /\ pp' = [pp EXCEPT !.retries = @ + 1,
                                               !.short = @ \/ o = "short"]
                           /\ UNCHANGED <<pc, current_page>>,
                           pc' = "st_after" /\ UNCHANGED <<pp, current_page>>)
    /\ UNCHANGED <<terminate, batch_data, sinkVars, fresh, stFixed>>

\* process_page, lines 349-355 and 373-378: "if not navigate_success: return
\* cases, new_page", else "retries += 1; continue"
St_RowNav ==
    /\ pc = "pp_row_n"
    /\ IF nv.ok
       THEN pp' = [pp EXCEPT !.retries = @ + 1] /\ pc' = "pp_row"
       ELSE pp' = [pp EXCEPT !.page = ch.new_page] /\ pc' = "st_after"
    /\ nv' = NoNv
    /\ ch' = NoCh
    /\ blog' = St_NavNoted
    /\ UNCHANGED <<terminate, current_page, batch_data, faults, sinkVars, view,
                   shown, fresh, stFixed>>

\* process_page, lines 393-408: "if not cases", the CAPTCHA handling, and
\* "return cases, current_page"
St_NoCases ==
    /\ pc = "pp_nocases"
    /\ IF pp.cases # <<>>
       THEN /\ pc' = "st_after"
            /\ UNCHANGED <<pp, view, shown, blog, nv, ch, current_page>>
       ELSE St_handle_captcha(pp.page, "pp_nocases_n",
               pc' = "st_after" /\ UNCHANGED <<pp, current_page>>,
               pc' = "st_after" /\ UNCHANGED <<pp, current_page>>)
    /\ UNCHANGED <<terminate, batch_data, faults, sinkVars, fresh, stFixed>>

\* process_page, lines 404-408
St_NoCasesNav ==
    /\ pc = "pp_nocases_n"
    /\ pp' = IF nv.ok THEN pp ELSE [pp EXCEPT !.page = ch.new_page]
    /\ pc' = "st_after"
    /\ nv' = NoNv
    /\ ch' = NoCh
    /\ blog' = St_NavNoted
    /\ UNCHANGED <<terminate, current_page, batch_data, faults, sinkVars, view,
                   shown, fresh, stFixed>>

\* main: "if len(batch_data) >= BATCH_SIZE * 10 or terminate" and "if
\* terminate: break"
St_SaveBatch(batch) ==
    /\ Sel_FlushIf(Len(batch) >= St_BATCH_SIZE * PageLen \/ terminate, batch)
    /\ pc' = IF terminate THEN "st_final" ELSE "st_next"

\* main, lines 527-540 and 563-576: take process_page's page, then either
\* call reset_search or extend the batch and save it when due
St_After ==
    /\ pc = "st_after"
    /\ current_page' = pp.page
    /\ IF pp.cases = <<>>
       THEN /\ pc' = "rs"
            /\ UNCHANGED <<batch_data, faults, sinkVars>>
       ELSE St_SaveBatch(batch_data \o pp.cases)
    /\ pp' = NoPP
    /\ UNCHANGED <<terminate, view, shown, fresh, nv, ch, blog, stFixed>>

\* reset_search, lines 413-446: driver.get, the wait for the user on the
\* page without results, the search, the call of navigate_to_page
St_Reset ==
    /\ pc = "rs"
    /\ fresh' = FALSE
    /\ \E searchOk \in BOOLEAN, w \in St_wait_outcomes("main", 0, 1) :
         /\ ~searchOk => w.solved /\ faults < MaxFaults
         /\ faults' = IF searchOk THEN faults ELSE faults + 1
         /\ IF w.solved /\ searchOk
            THEN /\ view' = "results"
                 /\ shown' = 1
                 /\ IF current_page > 1
                    THEN St_CallNav(current_page, "rs_n") /\ ch' = ch
                    ELSE /\ ch' = [ch EXCEPT !.rs = TRUE]
                         /\ pc' = "st_after_rs"
                         /\ nv' = nv
            ELSE /\ view' = w.view
                 /\ shown' = w.shown
                 /\ ch' = [ch EXCEPT !.rs = FALSE]
                 /\ pc' = "st_after_rs"
                 /\ nv' = nv
    /\ UNCHANGED <<terminate, current_page, batch_data, sinkVars, pp, blog,
                   stFixed>>

\* reset_search, line 446: "return navigate_to_page(driver, current_page)"
St_ResetNav ==
    /\ pc = "rs_n"
    /\ ch' = [ch EXCEPT !.rs = nv.ok]
    /\ nv' = NoNv
    /\ pc' = "st_after_rs"
    /\ UNCHANGED <<terminate, current_page, batch_data, faults, sinkVars, view,
                   shown, fresh, pp, blog, stFixed>>

\* main, lines 541-576: after a failed reset_search the step to the next page
\* or the end; after a successful one the save and the step to the next page
St_AfterReset ==
    /\ pc = "st_after_rs"
    /\ ch' = NoCh
    /\ IF ~ch.rs
       THEN /\ IF TableShown(view) /\ shown < srcPages
               THEN \E clickOk \in BOOLEAN :
                      /\ ~clickOk => faults < MaxFaults \/ view = "challenge"
                      /\ faults' = IF clickOk \/ view = "challenge"
                                   THEN faults ELSE faults + 1
                      /\ IF clickOk
                         THEN /\ shown' = shown + 1
                              /\ current_page' = St_next_page(current_page)
                              /\ fresh' = FALSE
                              /\ pc' = "st_loop"
                              /\ terminate' = terminate
                         ELSE /\ terminate' = TRUE
                              /\ pc' = "st_final"
                              /\ UNCHANGED <<shown, current_page, fresh>>
               ELSE /\ terminate' = TRUE
                    /\ pc' = "st_final"
                    /\ UNCHANGED <<shown, current_page, fresh, faults>>
            /\ UNCHANGED <<batch_data, sinkVars>>
       ELSE /\ St_SaveBatch(batch_data)
            /\ UNCHANGED <<terminate, shown, current_page, fresh>>
    /\ UNCHANGED <<view, pp, nv, blog, stFixed>>

\* main, lines 578-622: the step to the next page. Without the button
\* (NoSuchElementException) the CAPTCHA handling with navigate_to_page; when
\* the click fails, the CAPTCHA handling that takes the detected page
St_NextPage ==
    /\ pc = "st_next"
    /\ IF ~TableShown(view)
       THEN /\ St_handle_captcha(current_page, "st_next_n",
                  pc' = "st_loop" /\ UNCHANGED <<pp, current_page>>,
                  pc' = "st_final" /\ UNCHANGED <<pp, current_page>>)
            /\ UNCHANGED <<fresh, faults>>
       ELSE IF shown >= srcPages
       THEN /\ pc' = "st_final"
            /\ UNCHANGED <<view, shown, blog, nv, ch, pp, current_page, fresh,
                           faults>>
       ELSE \E clickOk \in BOOLEAN :
              /\ ~clickOk => faults < MaxFaults \/ view = "challenge"
              /\ faults' = IF clickOk \/ view = "challenge" THEN faults ELSE faults + 1
              /\ IF clickOk
                 THEN /\ shown' = shown + 1
                      /\ current_page' = St_next_page(current_page)
                      /\ fresh' = FALSE
                      /\ pc' = "st_loop"
                      /\ blog' = blog
                 ELSE /\ IF St_check_for_captcha(view)
                         THEN \E w \in St_wait_outcomes(view, shown, current_page) :
                                /\ current_page' = IF w.new_page # 0
                                                   THEN w.new_page
                                                   ELSE current_page
                                /\ blog' = St_LoggedDet(w)
                                /\ pc' = "st_loop"
                         ELSE /\ current_page' = current_page
                              /\ blog' = blog
                              /\ pc' = "st_final"
                      /\ UNCHANGED <<shown, fresh>>
              /\ UNCHANGED <<view, nv, ch, pp>>
    /\ UNCHANGED <<terminate, batch_data, sinkVars, stFixed>>

\* main, lines 602-603: "if not navigate_success: current_page = new_page"
St_NextNav ==
    /\ pc = "st_next_n"
    /\ current_page' = IF nv.ok THEN current_page ELSE ch.new_page
    /\ pc' = "st_loop"
    /\ nv' = NoNv
    /\ ch' = NoCh
    /\ blog' = St_NavNoted
    /\ UNCHANGED <<terminate, batch_data, faults, sinkVars, view, shown, fresh,
                   pp, stFixed>>

\* main: finally - save the remaining data
St_Final ==
    /\ pc = "st_final"
    /\ Sel_FlushIf(batch_data # <<>>, batch_data)
    /\ pc' = "done"
    /\ UNCHANGED <<terminate, current_page, view, shown, fresh, pp, nv, ch,
                   blog, stFixed>>

St_Next ==
    \/ St_Start
    \/ St_StartNav
    \/ St_NavBegin
    \/ St_NavStep
    \/ St_NavCheck
    \/ St_Loop
    \/ St_Top
    \/ St_TopNav
    \/ St_Rows
    \/ St_NoRowsNav
    \/ St_RowAttempt
    \/ St_RowNav
    \/ St_NoCases
    \/ St_NoCasesNav
    \/ St_After
    \/ St_Reset
    \/ St_ResetNav
    \/ St_AfterReset
    \/ St_NextPage
    \/ St_NextNav
    \/ St_Final
    \/ Sel_Signal
    \/ Env_Block
    \/ Env_SolveChallenge

SpecSt == St_Init /\ [][St_Next]_vars

-----------------------------------------------------------------------------
(* Claims about selenium_test.py, under SpecSt *)

\* the records of source pages 1..n, each tagged with its own page, in order
PageRecords(n) == [k \in 1..(n * PageLen) |-> PriorRows(n)[k][2]]

\* no two records of the sequence share an identity
NoDuplicateIdentity(recs) ==
    \A i, j \in DOMAIN recs : i # j => recs[i].id # recs[j].id

\* every disturbance of the run was a CAPTCHA of the site: the sink was read
\* and written without error, so the records given to save_to_csv are the
\* records written, and no click or row failed by itself
OnlyBlocks == faults = Len(blog)

\* the scenario of C4: an empty sink, a source of 3 pages, one CAPTCHA page
\* that answers the step onto page 2 and is met by the check at the top of
\* process_page, gone after 2 polls with the results back on page 2, a
\* pagination text that names the page, no cancellation
C4_Scenario ==
    /\ variant = 3
    /\ srcPages = 3
    /\ last_page = 0
    /\ info = "pageN"
    /\ ~terminate
    /\ OnlyBlocks
    /\ Len(blog) = 1
    /\ blog[1].top
    /\ blog[1].page = 2
    /\ blog[1].kind = "captcha"
    /\ blog[1].polls = 2
    /\ blog[1].back = 2
    /\ blog[1].res = "solved"

\* C4 - in the scenario the run ends with the rows of pages 1, 2 and 3 given
\* to save_to_csv and written to the sink once each, in order, tagged
\* Page = 1, 2, 3, with no duplicate, and it does not end in the crash of
\* the early returns.
Thm_C4_BlockedPage2Scenario ==
    C4_Scenario =>
        /\ pc # "crashed"
        /\ NoDuplicateIdentity(saved \o batch_data)
        /\ \A r \in Range(saved) \cup Range(batch_data) \cup Range(pp.cases) :
               r.Page = r.id[1]
        /\ pc = "done" =>
               /\ saved = PageRecords(3)
               /\ csv = PriorSink(3)

Wit_C4_ScenarioDone ==
    /\ C4_Scenario
    /\ pc = "done"
    /\ Len(saved) = 3 * PageLen

\* C5 as stated, for the runs disturbed by CAPTCHAs only - no two records
\* given to save_to_csv (there: written to the sink) in one session share an
\* identity.
Cex_C5_NoDuplicateIdentity ==
    (variant = 3 /\ OnlyBlocks) => NoDuplicateIdentity(saved)

\* C10 as stated, for the runs disturbed by CAPTCHAs only - once main has
\* set current_page, the checkpoint of the sink is <= current_page.
Cex_C10_CheckpointAtMostCurrent ==
    (variant = 3 /\ pc # "st_start" /\ OnlyBlocks) =>
        Checkpoint(csv) <= current_page

\* a wait_for_captcha_solution of this run reported solved with the detected
\* page d, which its caller kept
DetectedOnRecovery(log, d) ==
    \E i \in DOMAIN log : log[i].res = "solved" /\ log[i].det = d /\ d # 0

\* a navigate_to_page that followed a recovery returned False
NavFailedAfterRecovery(log) == \E i \in DOMAIN log : log[i].navfail

\* a navigate_to_page that followed a recovery returned False and its caller
\* kept the detected page d
KeptAfterNavFailure(log, d) ==
    \E i \in DOMAIN log : log[i].navfail /\ log[i].kept = d /\ d # 0

\* C11 - after main has set current_page, every change of current_page is an
\* increment by exactly 1, except the assignment of the page detected by a
\* solved wait_for_captcha_solution whose re-navigation failed or (in the
\* next-page step after a failed click) was not attempted.
Thm_C11_CursorMonotone ==
    [][(variant = 3 /\ pc # "st_start" /\ current_page' # current_page) =>
          \/ current_page' = current_page + 1
          \/ KeptAfterNavFailure(blog', current_page')
          \/ pc = "st_next" /\ DetectedOnRecovery(blog', current_page')]_vars

\* the cursor was rolled back to the page detected after a CAPTCHA
Wit_C11_RolledBack ==
    /\ variant = 3
    /\ pc = "st_loop"
    /\ \E i \in DOMAIN blog :
         /\ blog[i].navfail
         /\ blog[i].kept = current_page
         /\ blog[i].kept < blog[i].page

\* a wait_for_captcha_solution of the crawl returned not solved
TimedOutOnce == \E i \in DOMAIN blog : blog[i].res = "timeout"

\* C12 as stated - after wait_for_captcha_solution has timed out in the
\* crawl, the controller extracts no row, moves the browser to no other
\* page and does not change current_page.
Cex_C12_TimeoutIsFatal ==
    [][(variant = 3 /\ TimedOutOnce) =>
          /\ Len(pp'.cases) <= Len(pp.cases)
          /\ shown' = shown
          /\ current_page' = current_page]_vars

\* C13 as stated - once a wait_for_captcha_solution has reported a detected
\* page other than current_page, process_page reads rows only while the page
\* the browser displays is the page it tags the records with.
Cex_C13_ResyncBeforeExtraction ==
    (variant = 3 /\ pc = "pp_row" /\ \E d \in 1..SelMaxPages : DetectedOnRecovery(blog, d))
        => pp.snap = pp.page

\* C14 as stated - after a navigate_to_page that followed a recovery has
\* returned False, the controller extracts no row and moves to no other page.
Cex_C14_NavFailureIsFatal ==
    [][(variant = 3 /\ NavFailedAfterRecovery(blog)) =>
          /\ Len(pp'.cases) <= Len(pp.cases)
          /\ shown' = shown]_vars

\* C15 as stated - every wait_for_captcha_solution that returned solved
\* returned in a state where check_for_captcha is False, and every one that
\* returned not solved had polled for CAPTCHA_WAIT_TIME.
Cex_C15_SolvedMeansClear ==
    variant = 3 =>
        \A i \in DOMAIN blog :
            /\ blog[i].res = "solved" => blog[i].clear
            /\ blog[i].res = "timeout" =>
                   blog[i].polls * St_poll_sleep >= CAPTCHA_WAIT_TIME

\* C16 as stated - selenium_test.main never ends with an exception leaving
\* main: the returns before the crawl loop reach the finally block, which
\* reads batch_data before it was ever assigned.
Cex_C16_NoExceptionEscapes == variant = 3 => pc # "crashed"

-----------------------------------------------------------------------------
(* Further claims about apitest_single.py, under SpecApi *)

\* C17 - the records appended to batch_data are passed to save_to_csv at
\* most once while main runs, and exactly once when main has returned: what
\* is still in batch_data at the end is the argument of the last save.
Thm_C17_DrainExactlyOnce ==
    variant = 0 =>
        /\ NoDuplicateIdentity(Api_Emitted)
        /\ pc = "done" /\ batch_data # <<>> =>
               /\ lastSave.data = batch_data
               /\ Len(saved) >= Len(batch_data)
               /\ SubSeq(saved, Len(saved) - Len(batch_data) + 1, Len(saved))
                    = batch_data

\* main has returned after a flush in the loop and a final flush
Wit_C17_LoopAndFinalFlush ==
    /\ variant = 0
    /\ pc = "done"
    /\ batch_data # <<>>
    /\ Len(saved) > Len(batch_data)

\* C18 - once the terminate flag is set no get_case_list call is started
\* for a further page; the page in the pool is completed and its records
\* are flushed with the batch; main then returns; after main has returned
\* nothing changes any more.
Thm_C18_CooperativeCancellation ==
    /\ [][(variant = 0 /\ terminate) => listCalls' = listCalls]_vars
    /\ [][(variant = 0 /\ terminate /\ pc = "pool" /\ pc' # "pool") =>
             /\ batch_data' = <<>>
             /\ Len(saved') = Len(saved) + Len(batch_data) + Len(fut)]_vars
    /\ (variant = 0 /\ terminate) ~> (pc = "done")
    /\ [][pc = "done" => FALSE]_vars

\* main returned on the flag before the data ended, with records flushed
Wit_C18_CancelledMidCrawl ==
    /\ variant = 0
    /\ pc = "done"
    /\ terminate
    /\ saved # <<>>
    /\ \A p \in listCalls : p < srcPages

Cex_C20_NoPartialPageFlushed ==
    [][(variant = 3 /\ pc = "st_after" /\ pp.cases # <<>> /\ saved' # saved) =>
          pp.rowi > PageLen]_vars

-----------------------------------------------------------------------------
(* Claims about the retry loops of apitest_single.py, under SpecApi *)

\* C21 - within one call of get_case_list, and of get_explanation, every
\* time.sleep is at least as long as the sleep before it in the same call,
\* whatever mix of block waits (10 + 5 * attempt) and exception waits
\* (5 + 5 * attempt) the attempts make.
Thm_C21_BackoffMonotone ==
    /\ [][(variant = 0 /\ pc = "list") => req'.slept >= req.slept]_vars
    /\ [][(variant = 0 /\ pc = "pool") =>
             \A i \in DOMAIN fut : i \in DOMAIN fut' =>
                fut'[i].req.slept >= fut[i].req.slept]_vars
    /\ [](variant = 0 =>
             req.slept \in {0} \cup {5 + 5 * k : k \in 0..(Api_MAX_RETRIES - 2)}
                             \cup {10 + 5 * k : k \in 0..(Api_MAX_RETRIES - 1)})

\* a get_case_list call that has slept three times, the third time for a
\* block
Wit_C21_LaterWaits ==
    /\ variant = 0
    /\ pc = "list"
    /\ attempt = 3
    /\ req.resp = "block"
    /\ req.slept = 20

Cex_C23_FatalNotRetried ==
    variant = 0 =>
        /\ req.resp = "bad" => pc # "list"
        /\ \A i \in DOMAIN fut : fut[i].req.resp = "bad" => fut[i].st = "done"

-----------------------------------------------------------------------------
(* Claims about the batch and the sink of apitest_single.py, under SpecApi *)

\* main: batchThreshold, "BATCH_SIZE * 10" with the page length of the model
Api_batchThreshold == Api_BATCH_SIZE * PageLen

\* C24 - batch_data never holds more than batchThreshold + BATCH_SIZE * P
\* records, P the page length, neither between two iterations nor right
\* after the records of a page were added; the iteration in which the size
\* reaches batchThreshold passes the whole batch to save_to_csv and empties
\* it, and an iteration below the threshold (without the flag) saves nothing.
Thm_C24_BatchBound ==
    /\ [](variant = 0 =>
             Len(batch_data) <= Api_batchThreshold + Api_BATCH_SIZE * PageLen)
    /\ [][(variant = 0 /\ pc = "pool" /\ pc' = "loop") =>
             LET batch == batch_data \o Api_case_data
             IN  /\ Len(batch) <= Api_batchThreshold + Api_BATCH_SIZE * PageLen
                 /\ Len(batch) >= Api_batchThreshold =>
                       /\ batch_data' = <<>>
                       /\ saved' = saved \o batch
                 /\ (Len(batch) < Api_batchThreshold /\ ~terminate) =>
                       /\ batch_data' = batch
                       /\ saved' = saved]_vars

\* the batch was saved because it had reached the threshold
Wit_C24_FlushAtThreshold ==
    /\ variant = 0
    /\ pc = "loop"
    /\ ~terminate
    /\ batch_data = <<>>
    /\ Len(lastSave.data) = Api_batchThreshold

-----------------------------------------------------------------------------
(* Claims about save_to_csv of apitest_single.py and of selenium_test.py.
   SpecApiSt has the runs of both programs: a run is one of SpecApi or one
   of SpecSt. *)

SpecApiSt == (Api_Init \/ St_Init) /\ [][Api_Next \/ St_Next]_vars

\* the positions of the two main functions from which the crawl loop calls
\* save_to_csv, and from which the final save is made
InLoopFlush == pc \in {"pool", "st_after", "st_after_rs"}
FinalFlush == pc \in {"final", "st_final"}

\* C25 - a call of save_to_csv from the crawl loop leaves the batch empty,
\* whether the primary write succeeded, only the backup write succeeded, or
\* both failed; save_to_csv ends in one of these three ways and control goes
\* on in main after the call.
Thm_C25_BufferClearedAfterFlush ==
    /\ [][(InLoopFlush /\ saved' # saved) =>
             /\ batch_data' = <<>>
             /\ lastSave'.outcome \in {"ok", "primary_failed", "both_failed"}
             /\ pc' \in {"loop", "st_next", "st_final"}]_vars
    /\ [][saved' # saved =>
             /\ InLoopFlush \/ FinalFlush
             /\ pc' # "crashed"]_vars

\* the crawl loop of apitest_single saved a batch, both writes failed, and
\* the loop goes on with an empty batch
Wit_C25_BothFailedAndCleared ==
    /\ variant = 0
    /\ pc = "loop"
    /\ lastSave.outcome = "both_failed"
    /\ lastSave.data # <<>>
    /\ batch_data = <<>>

\* C26 - the primary sink, when it exists, has exactly one header row and it
\* is the first row; a step never removes or changes a row of the sink; and
\* a save_to_csv whose primary write succeeds appends the rows of its data
\* after the rows there are, with the header before them only when there was
\* no file.
Thm_C26_AppendElseCreateWithHeader ==
    /\ [](csv.exists =>
             /\ csv.lines # <<>>
             /\ csv.lines[1] = Header
             /\ \A i \in 2..Len(csv.lines) : csv.lines[i][1] = "row")
    /\ [][/\ csv.exists => csv'.exists
          /\ Len(csv'.lines) >= Len(csv.lines)
          /\ \A i \in DOMAIN csv.lines : csv'.lines[i] = csv.lines[i]]_vars
    /\ [][(saved' # saved /\ lastSave'.outcome = "ok") =>
             csv'.lines = csv.lines
                          \o (IF csv.exists THEN <<>> ELSE <<Header>>)
                          \o [i \in DOMAIN lastSave'.data |-> Row(lastSave'.data[i])]]_vars

\* a resumed run of selenium_test has appended a batch to the sink of the
\* run before it
Wit_C26_AppendedToPriorSink ==
    /\ variant = 3
    /\ last_page > 0
    /\ lastSave.outcome = "ok"
    /\ lastSave.data # <<>>
    /\ Len(csv.lines) = 1 + last_page * PageLen + Len(lastSave.data)

-----------------------------------------------------------------------------
(* Claims about the end of a run of apitest_single.py *)

\* main has left the loop at "if not cases_list: break", for the page
\* current_page
Api_EndOfData == pc \in {"final", "done"} /\ current_page \in listCalls

\* C27 - once get_case_list has returned no records for page p, no further
\* page is requested (p stays the largest page requested), the remaining
\* batch is passed to save_to_csv once and the run ends; a run that is not
\* cancelled always gets there.
Thm_C27_EndOfData ==
    /\ [](variant = 0 /\ pc \in {"final", "done"} =>
             \A q \in listCalls : q <= current_page)
    /\ [][(variant = 0 /\ pc \in {"final", "done"}) =>
             /\ listCalls' = listCalls
             /\ current_page' = current_page
             /\ pc' \in {"final", "done"}]_vars
    /\ [][(variant = 0 /\ pc = "final" /\ pc' # pc) =>
             /\ pc' = "done"
             /\ saved' = saved \o batch_data]_vars
    /\ [][(variant = 0 /\ pc = "done") => (saved' = saved /\ csv' = csv)]_vars
    /\ (variant = 0 /\ pc = "loop") ~> (terminate \/ (pc = "done" /\ Api_EndOfData))

\* a run that was not cancelled ended at the empty page after the last page
\* of the site and saved the remaining batch there
Wit_C27_RemainderSavedAtEnd ==
    /\ variant = 0
    /\ pc = "done"
    /\ ~terminate
    /\ Api_EndOfData
    /\ current_page = srcPages + 1
    /\ batch_data # <<>>
    /\ lastSave.data = batch_data

\* get_case_list: what it returns to main when its last request was answered
\* with resp - the listed stubs, or the empty list after the last failure
Api_list_result(resp, stubs) == IF resp = "ok" THEN stubs ELSE <<>>

\* main: what a run that left the loop at "if not cases_list" reports - the
\* log line of the break, the log line at the end, the exit status (main
\* returns and the interpreter exits with 0)
Api_main_outcome(cases) ==
    IF cases = <<>>
    THEN <<"No more cases found. Scraping complete.",
           "Scraper finished successfully", 0>>
    ELSE <<"", "Scraper finished successfully", 0>>

\* C28 as stated - a run that stops because get_case_list failed or was
\* blocked on every attempt for a page ends in an outcome that differs from
\* the outcome of a run that stops at an empty page of the source.
Cex_C28_ForcedEndDistinguishable ==
    (variant = 0 /\ pc = "done" /\ Api_EndOfData /\ req.resp # "ok") =>
        Api_main_outcome(Api_list_result(req.resp, Api_Stubs(current_page)))
           # Api_main_outcome(Api_list_result("ok", <<>>))

-----------------------------------------------------------------------------
(* Claims about the thread pool of apitest_single.py, under SpecPool *)

\* a get_explanation call is in flight: a thread of the pool runs it
Api_InFlight == {i \in DOMAIN fut : fut[i].st = "run"}

\* C29 - at most 5 get_explanation calls are in flight at any time, all of
\* them for stubs of the page main is at; while one is in flight main is
\* inside process_case_batch: no get_case_list request is made, no page is
\* added to the pages requested, and save_to_csv is not called.
Thm_C29_ConcurrencyConfinement ==
    /\ [](variant = 0 =>
             /\ Cardinality(Api_InFlight) <= 5
             /\ \A i \in Api_InFlight : cases_list[i].page = current_page
             /\ Api_InFlight # {} => pc = "pool")
    /\ [][(variant = 0 /\ Api_InFlight # {}) =>
             /\ listCalls' = listCalls
             /\ req' = req
             /\ saved' = saved
             /\ csv' = csv
             /\ backups' = backups
             /\ current_page' = current_page]_vars

\* all the threads of the pool are busy and a task is waiting in the queue
Wit_C29_PoolFull ==
    /\ variant = 0
    /\ pc = "pool"
    /\ Cardinality(Api_InFlight) = 5
    /\ \E i \in DOMAIN fut : fut[i].st = "queued"

-----------------------------------------------------------------------------
(* A further claim about the retry loops of apitest_single.py, under SpecApi *)

\* C37 as stated - the attempt with which get_case_list, or get_explanation,
\* comes to return the failure result is not followed by a time.sleep,
\* whether that attempt raised an exception or was answered with the block
\* marker.
Cex_C37_NoSleepAfterFinalAttempt ==
    /\ [][(variant = 0 /\ pc = "list" /\ pc' = "final" /\ req'.resp # "ok") =>
             req'.slept = req.slept]_vars
    /\ [][(variant = 0 /\ pc = "pool") =>
             \A i \in DOMAIN fut :
                (/\ i \in DOMAIN fut'
                 /\ fut[i].st = "run"
                 /\ fut'[i].st = "done"
                 /\ fut'[i].req.resp # "ok") =>
                    fut'[i].req.slept = fut[i].req.slept]_vars

------------------------------------------------------------------------------
(* get_last_page as a function of the sink file, under SpecGlp: the sink is *)
(* any file of up to GlpMaxRows rows, in any order of their pages           *)

GlpMaxRows == 3
GlpMaxPage == 3

GlpPageSeqs == UNION {[1..n -> 1..GlpMaxPage] : n \in 0..GlpMaxRows}

\* a sink written by save_to_csv: the header and one row per page of ps
GlpPaged(ps) ==
    [exists |-> TRUE,
     lines  |-> <<Header>> \o
                [i \in 1..Len(ps) |->
                    Row([Page |-> ps[i], id |-> <<ps[i], i>>,
                         Explanation |-> Doc(<<ps[i], i>>)])]]

\* a CSV file of other columns: no row has a Page
GlpForeign(ps) ==
    [exists |-> TRUE,
     lines  |-> <<ForeignHeader>> \o
                [i \in 1..Len(ps) |->
                    Row([id |-> <<ps[i], i>>,
                         Explanation |-> Doc(<<ps[i], i>>)])]]

GlpFiles ==
    {[exists |-> FALSE, lines |-> <<>>], [exists |-> TRUE, lines |-> <<>>]}
    \cup {GlpPaged(ps) : ps \in GlpPageSeqs}
    \cup {GlpForeign(ps) : ps \in GlpPageSeqs}

Glp_Init ==
    /\ pc = "glp"
    /\ variant \in {0, 3}
    /\ csv \in GlpFiles
    /\ srcPages = 1
    /\ backups = <<>>
    /\ terminate = FALSE
    /\ last_page = 0
    /\ current_page = 0
    /\ batch_data = <<>>
    /\ faults = 0
    /\ saved = <<>>
    /\ lastSave = NoSave
    /\ view = "blank"
    /\ shown = 0
    /\ fresh = FALSE
    /\ pp = <<>>
    /\ empties = 0
    /\ nv = <<>>
    /\ ch = <<>>
    /\ info = "none"
    /\ wt = NoWait
    /\ ag = NoAgents
    /\ blog = <<>>
    /\ NoApi

\* main: last_page = get_last_page() and the page the crawl starts at;
\* faults = 1 records that pd.read_csv raised
Glp_Call ==
    /\ pc = "glp"
    /\ \E readOk \in BOOLEAN :
         /\ ~readOk => csv.exists /\ faults < MaxFaults
         /\ faults' = IF readOk THEN faults ELSE faults + 1
         /\ last_page' = IF variant = 0
                         THEN Api_get_last_page(csv, readOk)
                         ELSE Sel_get_last_page(csv, readOk)
    /\ current_page' = IF variant = 0
                       THEN Api_start_page(last_page')
                       ELSE St_start_page(last_page')
    /\ pc' = "glp_done"
    /\ UNCHANGED <<srcPages, csv, backups, terminate, batch_data, saved,
                   lastSave, apiVars, selVars, stVars>>

Glp_Next == Glp_Call

SpecGlp == Glp_Init /\ [][Glp_Next]_vars

\* the rows of the sink that carry a Page
GlpPagedRows ==
    IF csv.exists /\ csv.lines # <<>> /\ csv.lines[1] = Header
    THEN {i \in DOMAIN csv.lines : i > 1}
    ELSE {}

\* C33 - get_last_page returns the largest Page of the rows of the sink when
\* the file exists, was read and has rows with a Page column, and 0 when it
\* is missing, of zero bytes, without rows, without a Page column or
\* unreadable; the crawl starts at that value + 1, which is page 1 exactly
\* when the value is 0.
Thm_C33_LastPageIsMaxOrZero ==
    pc = "glp_done" =>
      /\ IF faults = 0 /\ GlpPagedRows # {}
         THEN /\ \E i \in GlpPagedRows : csv.lines[i][2].Page = last_page
              /\ \A i \in GlpPagedRows : csv.lines[i][2].Page <= last_page
         ELSE last_page = 0
      /\ current_page = last_page + 1
      /\ (current_page = 1 <=> last_page = 0)

\* apitest_single read a sink whose first row is not the row of the largest
\* Page
Wit_C33_MaxNotFirst ==
    /\ pc = "glp_done"
    /\ variant = 0
    /\ faults = 0
    /\ Cardinality(GlpPagedRows) > 1
    /\ csv.lines[2][2].Page < last_page

------------------------------------------------------------------------------
(* wait_for_captcha_solution of selenium_crawler2 (variant 2) and of         *)
(* selenium_test (variant 3), loop by loop, under SpecWait: time passes in   *)
(* the driver calls and in time.sleep, which may oversleep                   *)

\* the longest a driver call lasts, and the most time.sleep oversleeps
WaitJitter == 1

\* mutant: the loop goes on for three sleeps past the limit
Mut_in_time_late(e) == e < CAPTCHA_WAIT_TIME + (3 * St_poll_sleep)

\* "while time.time() - start_time < CAPTCHA_WAIT_TIME"
Wait_in_time(e) == e < CAPTCHA_WAIT_TIME

Wait_Init ==
    /\ pc = "w_test"
    /\ variant \in {2, 3}
    /\ view = "captcha"
    /\ wt = NoWait
    /\ ag = NoAgents
    /\ srcPages = 1
    /\ csv = [exists |-> FALSE, lines |-> <<>>]
    /\ backups = <<>>
    /\ terminate = FALSE
    /\ last_page = 0
    /\ current_page = 1
    /\ batch_data = <<>>
    /\ faults = 0
    /\ saved = <<>>
    /\ lastSave = NoSave
    /\ shown = 1
    /\ fresh = FALSE
    /\ pp = <<>>
    /\ empties = 0
    /\ nv = <<>>
    /\ ch = <<>>
    /\ info = "none"
    /\ blog = <<>>
    /\ NoApi

waitFixed == <<srcPages, csv, backups, terminate, last_page, current_page,
               batch_data, faults, saved, lastSave, variant, shown, fresh,
               pp, empties, nv, ch, info, blog, ag, apiVars>>

\* the loop condition; past the limit: "return False" / "return (False, None)"
Wait_Test ==
    /\ pc = "w_test"
    /\ IF Wait_in_time(wt.elapsed)
       THEN /\ pc' = "w_poll"
            /\ wt' = wt
       ELSE /\ pc' = "w_ret"
            /\ wt' = [wt EXCEPT !.ret = "timeout"]
    /\ UNCHANGED <<view, waitFixed>>

\* the try block: driver.find_elements raises, finds the results table (the
\* function returns solved, whatever the pagination text is like) or finds
\* none
Wait_Poll ==
    /\ pc = "w_poll"
    /\ \E d \in 0..WaitJitter, raises \in BOOLEAN :
         LET polled == [wt EXCEPT !.elapsed = @ + d, !.polls = @ + 1]
         IN  IF raises
             THEN /\ wt' = [polled EXCEPT !.raised = TRUE]
                  /\ pc' = "w_sleep"
             ELSE IF view = "results"
                  THEN /\ wt' = [polled EXCEPT !.ret = "solved"]
                       /\ pc' = "w_ret"
                  ELSE /\ wt' = polled
                       /\ pc' = "w_sleep"
    /\ UNCHANGED <<view, waitFixed>>

\* time.sleep(5), after a poll that found no table and in the except clause
Wait_Sleep ==
    /\ pc = "w_sleep"
    /\ \E d \in 0..WaitJitter :
         wt' = [wt EXCEPT !.elapsed = @ + St_poll_sleep + d]
    /\ pc' = "w_test"
    /\ UNCHANGED <<view, waitFixed>>

\* the user solves the CAPTCHA: the results table is back
Wait_UserSolves ==
    /\ pc \in {"w_test", "w_poll", "w_sleep"}
    /\ view = "captcha"
    /\ view' = "results"
    /\ UNCHANGED <<pc, wt, waitFixed>>

Wait_Step == Wait_Test \/ Wait_Poll \/ Wait_Sleep

Wait_Next == Wait_Step \/ Wait_UserSolves

SpecWait == Wait_Init /\ [][Wait_Next]_vars

\* the interpreter goes on running the function
FairSpecWait == SpecWait /\ WF_vars(Wait_Step)

\* C31 - wait_for_captcha_solution returns, after at most
\* CAPTCHA_WAIT_TIME / 5 + 1 polls, also when polls raise; when it returns
\* not solved the limit has passed, by no more than one poll and one sleep.
Thm_C31_WaitReturnsWithinPolls ==
    /\ [](wt.polls <= (CAPTCHA_WAIT_TIME \div St_poll_sleep) + 1)
    /\ [](wt.ret = "timeout" =>
            /\ wt.elapsed >= CAPTCHA_WAIT_TIME
            /\ wt.elapsed < CAPTCHA_WAIT_TIME + St_poll_sleep + (2 * WaitJitter))
    /\ <>(pc = "w_ret")

\* the wait timed out after a poll raised, having polled every 5 seconds
Wit_C31_TimedOutAfterRaise ==
    /\ pc = "w_ret"
    /\ wt.ret = "timeout"
    /\ wt.raised
    /\ wt.polls = CAPTCHA_WAIT_TIME \div St_poll_sleep

------------------------------------------------------------------------------
(* Further claims about process_page of selenium_test.py, under SpecSt *)

\* C32 - in selenium_test.process_page a row is tried at most MAX_RETRIES
\* times, a text that is empty or shorter than 10 characters being one failed
\* try; no record of the cases it returns has an Explanation that is missing
\* or that short; and no two of its records come from the same row.
Thm_C32_ShortIsRetriedNotRecorded ==
    (variant = 3 /\ pp # NoPP) =>
      /\ pp.retries <= St_MAX_RETRIES
      /\ \A i \in DOMAIN pp.cases :
            /\ ~St_too_short(pp.cases[i].Explanation)
            /\ pp.cases[i].Explanation = Doc(pp.cases[i].id)
      /\ \A i, j \in DOMAIN pp.cases :
            pp.cases[i].id = pp.cases[j].id => i = j

\* the first row gave a record, the second was given up after MAX_RETRIES
\* tries of which one read a short text
Wit_C32_ShortRowGivenUp ==
    /\ variant = 3
    /\ pc = "pp_row"
    /\ pp.rowi = 2
    /\ pp.short
    /\ pp.retries = St_MAX_RETRIES
    /\ Len(pp.cases) = 1

------------------------------------------------------------------------------
(* A further claim about process_page of selenium_crawler.py and of         *)
(* selenium_crawler2.py, under SpecSc                                       *)

\* C34 as stated - the retry loop of a row makes at most MAX_RETRIES passes
\* while the terminate flag is not set: every pass that leaves process_page
\* on the same row has counted one more retry.
Cex_C34_EveryPassCounts ==
    [][(/\ variant \in {1, 2}
        /\ pc = "sc_row" /\ pc' = "sc_row"
        /\ ~terminate /\ ~terminate'
        /\ pp.rowi <= PageLen
        /\ pp' # pp /\ pp'.rowi = pp.rowi)
          => pp'.retries = pp.retries + 1]_vars

------------------------------------------------------------------------------
(* Further claims about navigate_to_page and main of selenium_test.py,      *)
(* under SpecSt                                                             *)

\* C35 as stated - when navigate_to_page(target) has returned True the
\* browser displays the page target.
Cex_C35_TrueMeansOnTarget ==
    (variant = 3 /\ nv # NoNv /\ nv.ok) => shown = nv.target

\* C36 as stated - selenium_test.main moves the cursor from page p to p + 1
\* only after a record tagged Page = p was appended to the batch in this run.
Cex_C36_NoSilentSkip ==
    [][(/\ variant = 3
        /\ pc \in {"st_after_rs", "st_next"}
        /\ current_page' = current_page + 1)
          => \E r \in Range(batch_data) \cup Range(saved) :
                r.Page = current_page]_vars

------------------------------------------------------------------------------
(* agent.py: JurySaneSystem.analyze_case_multi_agent, under SpecAgent *)

\* the rows of cases_df that case_idx ranges over
MaxCases == 2

\* class AgentType
AgentTypes == {"chatgpt", "google_ai", "deepseek"}

\* agent_configs: lists of configurations of distinct agent types;
\* self.agents is a dict that keeps their order
AgentConfigs ==
    {cfg \in UNION {[1..n -> AgentTypes] : n \in 1..Cardinality(AgentTypes)} :
        \A i, j \in DOMAIN cfg : cfg[i] = cfg[j] => i = j}

\* how a call of the API can go: an answer that parses, a status other than
\* 200, an exception of session.post, an answer that does not parse
Ag_Outcomes == {"ok", "status", "raise", "noparse"}

\* LegalAgent.analyze_case of agent a on case c when the API call goes as o:
\* {"analysis": ...} or {"error": ...}
Ag_analyze_case(a, c, o) ==
    IF o = "ok"
    THEN [key |-> "analysis", by |-> a, case |-> c, of |-> o]
    ELSE [key |-> "error", by |-> a, case |-> c, of |-> o]

\* mutant: the results in the order the tasks completed in
Mut_gather_as_completed(tasks, order) ==
    [i \in DOMAIN order |-> tasks[order[i]].result]

\* asyncio.gather(*tasks): the results in the order of the awaitables
Ag_gather(tasks, order) == [i \in DOMAIN tasks |-> tasks[i].result]

\* "{agent_type.value: result for agent_type, result in
\* zip(self.agents.keys(), results)}"
Ag_zip(keys, results) ==
    [k \in Range(keys) |->
        results[CHOOSE i \in DOMAIN keys : keys[i] = k]]

Ag_Init ==
    /\ pc = "ag_start"
    /\ \E cfg \in AgentConfigs, c \in 1..MaxCases :
         ag = [case |-> c,
               tasks |-> [i \in DOMAIN cfg |->
                            [agent |-> cfg[i], st |-> "none", result |-> <<>>]],
               order |-> <<>>, analyses |-> <<>>]
    /\ variant = 0
    /\ srcPages = 1
    /\ csv = [exists |-> FALSE, lines |-> <<>>]
    /\ backups = <<>>
    /\ terminate = FALSE
    /\ last_page = 0
    /\ current_page = 0
    /\ batch_data = <<>>
    /\ faults = 0
    /\ saved = <<>>
    /\ lastSave = NoSave
    /\ view = "blank"
    /\ shown = 0
    /\ fresh = FALSE
    /\ pp = <<>>
    /\ empties = 0
    /\ nv = <<>>
    /\ ch = <<>>
    /\ info = "none"
    /\ wt = NoWait
    /\ blog = <<>>
    /\ NoApi

agFixed == <<srcPages, csv, backups, terminate, last_page, current_page,
             batch_data, faults, saved, lastSave, selVars, nv, ch, info, wt,
             blog, apiVars>>

\* "for agent_type, agent in self.agents.items(): tasks.append(
\* asyncio.create_task(agent.analyze_case(case_text)))"
Ag_CreateTasks ==
    /\ pc = "ag_start"
    /\ ag' = [ag EXCEPT !.tasks = [i \in DOMAIN @ |-> [@[i] EXCEPT !.st = "run"]]]
    /\ pc' = "ag_gather"
    /\ UNCHANGED agFixed

\* the task of one agent completes: analyze_case returns
Ag_Complete(i) ==
    /\ pc = "ag_gather"
    /\ ag.tasks[i].st = "run"
    /\ \E o \in Ag_Outcomes :
         ag' = [ag EXCEPT
                  !.tasks[i] = [@ EXCEPT !.st = "done",
                                  !.result = Ag_analyze_case(ag.tasks[i].agent,
                                                            ag.case, o)],
                  !.order = Append(@, i)]
    /\ UNCHANGED <<pc, agFixed>>

\* "results = await asyncio.gather(*tasks)" and combined_analysis
Ag_Combine ==
    /\ pc = "ag_gather"
    /\ \A i \in DOMAIN ag.tasks : ag.tasks[i].st = "done"
    /\ LET keys == [i \in DOMAIN ag.tasks |-> ag.tasks[i].agent]
           results == Ag_gather(ag.tasks, ag.order)
       IN  ag' = [ag EXCEPT !.analyses = Ag_zip(keys, results)]
    /\ pc' = "ag_done"
    /\ UNCHANGED agFixed

Ag_Next ==
    \/ Ag_CreateTasks
    \/ \E i \in DOMAIN ag.tasks : Ag_Complete(i)
    \/ Ag_Combine

SpecAgent == Ag_Init /\ [][Ag_Next]_vars

\* C38 - when analyze_case_multi_agent returns, agent_analyses has one key
\* per agent of the system and the value under each key is what that agent's
\* own analyze_case returned for the case, whatever the order the calls
\* completed in: an analysis when its call went well, an error value when it
\* failed, the values of the other agents being there all the same.
Thm_C38_EachKeyItsOwnResult ==
    pc = "ag_done" =>
      /\ DOMAIN ag.analyses = {ag.tasks[i].agent : i \in DOMAIN ag.tasks}
      /\ \A i \in DOMAIN ag.tasks :
            LET a == ag.tasks[i].agent
                r == ag.analyses[a]
            IN  /\ r.by = a
                /\ r.case = ag.case
                /\ r = ag.tasks[i].result
                /\ r.key = IF r.of = "ok" THEN "analysis" ELSE "error"

\* the last agent completed first and failed, the first agent completed last
\* and has its analysis
Wit_C38_LastFirstAndFailed ==
    /\ pc = "ag_done"
    /\ Len(ag.tasks) = 3
    /\ ag.order = <<3, 2, 1>>
    /\ ag.tasks[3].result.key = "error"
    /\ ag.analyses[ag.tasks[1].agent].key = "analysis"

====
